---- MODULE Spec2Model ----
(***************************************************************************)
(* Job aggregation pipeline of src/src/Job_applier.py:                     *)
(*   - the deduplicator (JobPost.dedupe_key, dedupe_jobs), specification   *)
(*     SpecDedupe;                                                         *)
(*   - the apply stage of main (cap step, run_selenium_scans_and_apply,    *)
(*     the four site strategies, the status export), specification Spec;   *)
(*   - the salary normalizer and cutoff filter (extract_salary_numbers,    *)
(*     meets_cutoff), specification SpecSalary;                            *)
(*   - the resume-fit filter (matches_resume), specification SpecResume;   *)
(*   - the cookie cache (load_or_login_save_cookies and the six calls main *)
(*     makes), specification SpecCookies;                                  *)
(*   - the enrichment pass of src/src/Contact.py (main,                    *)
(*     hunter_domain_search, is_valid_email), specification SpecContact;   *)
(*   - the provider registry (run_scrapers and the eight scrape_*          *)
(*     functions), specification SpecScrape;                               *)
(*   - main from the deduplication to the two exports, specification       *)
(*     SpecPipeline.                                                       *)
(*                                                                         *)
(* Strings are finite sequences of atoms.  An atom is one character ("a",  *)
(* "A", " ") or, inside a link, one URL component ("linkedin.com", "/").   *)
(* str.lower(), str.strip() and the `in` substring test are computed on    *)
(* these sequences, atom by atom.                                          *)
(***************************************************************************)
EXTENDS Naturals, Sequences, FiniteSets

VARIABLES
    all_jobs,     \* dedupe: the scraped list handed to dedupe_jobs
    out,          \* dedupe: dedupe_jobs(all_jobs)
    out2,         \* dedupe: dedupe_jobs applied to its own output
    dpc,          \* dedupe: position ("start", "deduped", "twice", "off")
    shortlisted,  \* apply: main's shortlisted list (JobPost objects, by position)
    cap,          \* apply: MAX_APPS_PER_RUN
    status,       \* apply: status[r] is the status field of shortlisted[r]
    to_apply,     \* apply: positions of the objects in shortlisted[:MAX_APPS_PER_RUN]
    pc,           \* apply: position of main / of the dispatch loop
    i,            \* apply: index of the dispatch loop into to_apply
    site,         \* apply: strategy chosen for the current record
    step,         \* apply: next driver operation of the running strategy
    att,          \* apply: what the driver did during the current record's attempt
    invoked,      \* apply: positions for which a strategy was invoked
    touched,      \* apply: positions for which a driver operation was performed
    dispatched,   \* apply: positions that entered the dispatch loop body, in order
    driver,       \* apply: kind of driver ("arbitrary" or "never_found")
    exported,     \* apply: rows written to jobs_with_status.xlsx (<<>> before)
    s_job,        \* salary: the record under test (salary text, location)
    s_parsed,     \* salary: result of extract_salary_numbers(s_job.salary)
    s_pass,       \* salary: result of meets_cutoff(s_job)
    s_pc,         \* salary: position ("start", "parsed", "filtered", "off")
    r_job,        \* resume: the record under test (role, company, description_snippet)
    r_kws,        \* resume: RESUME_KEYWORDS in the order used
    r_match,      \* resume: result of matches_resume
    r_pc,         \* resume: position ("start", "matched", "reordered", "off")
    k_exists,     \* cookies: k_exists[s] iff the file <s>_cookies.pkl exists
    k_call,       \* cookies: number of the current call of load_or_login_save_cookies
    k_pc,         \* cookies: position inside the call, or in main
    k_hist,       \* cookies: k_hist[c] is what call c did (load, login, save, result)
    k_writes,     \* cookies: the calls that wrote a cookie file, in order
    c_rows,       \* contact: the rows of jobs_with_status.xlsx
    c_key,        \* contact: HUNTER_API_KEY is set
    c_world,      \* contact: what a domain resolver and a second email finder
                  \*          would answer (Contact.py consults neither)
    c_idx,        \* contact: index of the row loop of main
    c_resp,       \* contact: c_resp[k] is the response the request for row k got
    c_cols,       \* contact: the three columns built so far, one entry per row
    c_calls,      \* contact: the calls of hunter_domain_search, in order
    c_pc,         \* contact: position of main ("read", "loop", "export", "done",
                  \*          "crashed", "off")
    c_file,       \* contact: rows written to jobs_with_contacts.xlsx
    c_input,      \* contact: jobs_with_status.xlsx exists
    c_exit,       \* contact: exit status of Contact.py ("running", "0", "1")
    c_report,     \* contact: what run_script of src/main.py printed
    g_config,     \* scrape: the keys of config that are true
    g_fails,      \* scrape: where the sites fail during this run
    g_k,          \* scrape: number of the next provider of run_scrapers
    g_jobs,       \* scrape: all_jobs of run_scrapers
    g_calls,      \* scrape: the providers called and what each returned
    g_pc,         \* scrape: position ("run", "returned", "raised", "off")
    p_all,        \* pipeline: all_jobs before the deduplication
    p_cap,        \* pipeline: MAX_APPS_PER_RUN
    p_dedup,      \* pipeline: all_jobs after the deduplication
    p_short,      \* pipeline: shortlisted
    p_files,      \* pipeline: rows of the files written, by file name
    p_nav,        \* pipeline: the links the apply stage called driver.get with
    p_sessions,   \* pipeline: the browser sessions made so far and their state
    p_pc          \* pipeline: position of main ("collected", "deduped", "raw",
                  \*           "filtered", "applied", "done", "crashed", "off")

dvars == <<all_jobs, out, out2, dpc>>
avars == <<shortlisted, cap, status, to_apply, pc, i, site, step, att,
           invoked, touched, dispatched, driver, exported>>
svars == <<s_job, s_parsed, s_pass, s_pc>>
rvars == <<r_job, r_kws, r_match, r_pc>>
kvars == <<k_exists, k_call, k_pc, k_hist, k_writes>>
cvars == <<c_rows, c_key, c_world, c_idx, c_resp, c_cols, c_calls, c_pc, c_file,
           c_input, c_exit, c_report>>
gvars == <<g_config, g_fails, g_k, g_jobs, g_calls, g_pc>>
pvars == <<p_all, p_cap, p_dedup, p_short, p_files, p_nav, p_sessions, p_pc>>
vars == <<dvars, avars, svars, rvars, kvars, cvars, gvars, pvars>>

\* the variables of the other components, which a component's actions leave alone
not_dedupe == <<avars, svars, rvars, kvars, cvars, gvars, pvars>>
not_apply == <<dvars, svars, rvars, kvars, cvars, gvars, pvars>>
not_salary == <<dvars, avars, rvars, kvars, cvars, gvars, pvars>>
not_resume == <<dvars, avars, svars, kvars, cvars, gvars, pvars>>
not_cookies == <<dvars, avars, svars, rvars, cvars, gvars, pvars>>
not_contact == <<dvars, avars, svars, rvars, kvars, gvars, pvars>>
not_scrape == <<dvars, avars, svars, rvars, kvars, cvars, pvars>>
not_pipeline == <<dvars, avars, svars, rvars, kvars, cvars, gvars>>

\* ---------------------------------------------------------------- bounds
MaxJobs == 3
MaxShortlist == 3
MaxCap == 3

\* ---------------------------------------------------------------- strings
Min(a, b) == IF a <= b THEN a ELSE b

\* str.lower() on one atom
LowerChar(c) ==
    CASE c = "A" -> "a"
      [] c = "B" -> "b"
      [] c = "C" -> "c"
      [] c = "D" -> "d"
      [] c = "E" -> "e"
      [] c = "F" -> "f"
      [] c = "G" -> "g"
      [] c = "H" -> "h"
      [] c = "I" -> "i"
      [] c = "J" -> "j"
      [] c = "K" -> "k"
      [] c = "L" -> "l"
      [] c = "M" -> "m"
      [] c = "N" -> "n"
      [] c = "O" -> "o"
      [] c = "P" -> "p"
      [] c = "Q" -> "q"
      [] c = "R" -> "r"
      [] c = "S" -> "s"
      [] c = "T" -> "t"
      [] c = "U" -> "u"
      [] c = "V" -> "v"
      [] c = "W" -> "w"
      [] c = "X" -> "x"
      [] c = "Y" -> "y"
      [] c = "Z" -> "z"
      [] c = "Indeed.com" -> "indeed.com"
      [] c = "LINKEDIN.COM" -> "linkedin.com"
      [] OTHER -> c

\* str.upper() on one atom
UpperChar(c) ==
    CASE c = "a" -> "A"
      [] c = "b" -> "B"
      [] c = "c" -> "C"
      [] c = "d" -> "D"
      [] c = "e" -> "E"
      [] c = "f" -> "F"
      [] c = "g" -> "G"
      [] c = "h" -> "H"
      [] c = "i" -> "I"
      [] c = "j" -> "J"
      [] c = "k" -> "K"
      [] c = "l" -> "L"
      [] c = "m" -> "M"
      [] c = "n" -> "N"
      [] c = "o" -> "O"
      [] c = "p" -> "P"
      [] c = "q" -> "Q"
      [] c = "r" -> "R"
      [] c = "s" -> "S"
      [] c = "t" -> "T"
      [] c = "u" -> "U"
      [] c = "v" -> "V"
      [] c = "w" -> "W"
      [] c = "x" -> "X"
      [] c = "y" -> "Y"
      [] c = "z" -> "Z"
      [] OTHER -> c

\* str.upper()
Upper(s) == [k \in 1..Len(s) |-> UpperChar(s[k])]

\* str.lower()
Lower(s) == [k \in 1..Len(s) |-> LowerChar(s[k])]

\* str.strip(): leading and trailing whitespace removed
RECURSIVE Strip(_)
Strip(s) ==
    IF s = <<>> THEN s
    ELSE IF Head(s) = " " THEN Strip(Tail(s))
    ELSE IF s[Len(s)] = " " THEN Strip(SubSeq(s, 1, Len(s) - 1))
    ELSE s

\* `sub in s` for strings
Contains(s, sub) ==
    \E k \in 0..Len(s) :
        /\ k + Len(sub) <= Len(s)
        /\ \A m \in 1..Len(sub) : s[k + m] = sub[m]

\* ---------------------------------------------------------------- JobPost
JobPost(company, role, location, link, source) ==
    [company |-> company, role |-> role, location |-> location,
     link |-> link, source |-> source]

\* a key that also tells the sources apart
dedupe_key_with_source(j) ==
    <<Lower(Strip(j.company)), Lower(Strip(j.role)), Lower(Strip(j.location)),
      Strip(j.link), j.source>>

\* JobPost.dedupe_key: company, role and location stripped and lower-cased,
\* the link stripped only
dedupe_key(j) ==
    <<Lower(Strip(j.company)), Lower(Strip(j.role)), Lower(Strip(j.location)),
      Strip(j.link)>>

\* dedupe_jobs: the loop over jobs with the seen set and the out list
RECURSIVE dedupe_loop(_, _, _)
dedupe_loop(jobs, seen, acc) ==
    IF jobs = <<>> THEN acc
    ELSE LET j == Head(jobs)
             key == dedupe_key(j)
         IN IF key \in seen
            THEN dedupe_loop(Tail(jobs), seen, acc)
            ELSE dedupe_loop(Tail(jobs), seen \cup {key}, Append(acc, j))

\* a dedupe whose loop starts at the second element
dedupe_jobs_skip_first(jobs) ==
    IF jobs = <<>> THEN <<>> ELSE dedupe_loop(Tail(jobs), {}, <<>>)

\* a dedupe that keeps the last record of each key instead of the first
RECURSIVE dedupe_keep_last(_)
dedupe_keep_last(jobs) ==
    IF jobs = <<>> THEN <<>>
    ELSE LET j == Head(jobs)
             rest == Tail(jobs)
         IN IF \E k \in 1..Len(rest) : dedupe_key(rest[k]) = dedupe_key(j)
            THEN dedupe_keep_last(rest)
            ELSE <<j>> \o dedupe_keep_last(rest)

dedupe_jobs(jobs) == dedupe_loop(jobs, {}, <<>>)

\* ---------------------------------------------------------------- dedupe inputs
S_ac == <<"a", "c">>
S_ml == <<"m", "l">>
S_in == <<"i", "n">>
S_x1 == <<"x", "/", "1">>

\* Scraped records: one base listing, the same listing written differently in
\* one field, listed by another source, and two different listings.
JobVals ==
    { JobPost(S_ac, S_ml, S_in, S_x1, "YC"),
      JobPost(<<"A", "c">>, S_ml, S_in, S_x1, "Indeed"),
      JobPost(<<" ", "a", "c", " ">>, S_ml, S_in, S_x1, "Indeed"),
      JobPost(S_ac, <<"M", "L">>, S_in, S_x1, "Indeed"),
      JobPost(S_ac, S_ml, <<"i", "n", " ">>, S_x1, "Indeed"),
      JobPost(S_ac, S_ml, S_in, <<"X", "/", "1">>, "Indeed"),
      JobPost(S_ac, S_ml, S_in, <<" ", "x", "/", "1", " ">>, "Indeed"),
      JobPost(S_ac, S_ml, S_in, S_x1, "RemoteOK"),
      JobPost(<<"b", "d">>, S_ml, S_in, S_x1, "YC"),
      JobPost(S_ac, S_ml, S_in, <<"x", "/", "2">>, "YC") }

SeqsUpTo(S, n) == UNION {[1..m -> S] : m \in 0..n}

\* ---------------------------------------------------------------- apply: idle
\* The apply-stage variables while only the deduplicator runs.
ApplyIdle ==
    /\ shortlisted = <<>> /\ cap = 0 /\ status = <<>> /\ to_apply = <<>>
    /\ pc = "off" /\ i = 0 /\ site = "none" /\ step = "none"
    /\ att = <<>> /\ invoked = {} /\ touched = {} /\ dispatched = <<>>
    /\ driver = "arbitrary" /\ exported = <<>>

\* The deduplicator variables while only the apply stage runs.
DedupeIdle ==
    /\ all_jobs = <<>> /\ out = <<>> /\ out2 = <<>> /\ dpc = "off"

\* The salary-filter variables while another component runs.
SalaryIdle ==
    /\ s_job = <<>> /\ s_parsed = <<>> /\ s_pass = FALSE /\ s_pc = "off"

\* The resume-filter variables while another component runs.
ResumeIdle ==
    /\ r_job = <<>> /\ r_kws = <<>> /\ r_match = FALSE /\ r_pc = "off"

CookiesIdle ==
    /\ k_exists = <<>> /\ k_call = 0 /\ k_pc = "off"
    /\ k_hist = <<>> /\ k_writes = <<>>

ContactIdle ==
    /\ c_rows = <<>> /\ c_key = FALSE /\ c_world = <<>> /\ c_idx = 0
    /\ c_resp = <<>> /\ c_cols = <<>> /\ c_calls = <<>> /\ c_pc = "off"
    /\ c_file = <<>> /\ c_input = FALSE /\ c_exit = "off" /\ c_report = "off"

ScrapeIdle ==
    /\ g_config = {} /\ g_fails = {} /\ g_k = 0 /\ g_jobs = <<>>
    /\ g_calls = <<>> /\ g_pc = "off"

PipelineIdle ==
    /\ p_all = <<>> /\ p_cap = 0 /\ p_dedup = <<>> /\ p_short = <<>>
    /\ p_files = <<>> /\ p_nav = <<>> /\ p_sessions = <<>> /\ p_pc = "off"

\* ---------------------------------------------------------------- SpecDedupe
InitDedupe ==
    /\ all_jobs \in SeqsUpTo(JobVals, MaxJobs)
    /\ out = <<>> /\ out2 = <<>> /\ dpc = "start"
    /\ ApplyIdle /\ SalaryIdle /\ ResumeIdle /\ CookiesIdle /\ ContactIdle
    /\ ScrapeIdle /\ PipelineIdle

\* main: all_jobs = dedupe_jobs(all_jobs)
Dedupe ==
    /\ dpc = "start"
    /\ out' = dedupe_jobs(all_jobs)
    /\ dpc' = "deduped"
    /\ UNCHANGED <<all_jobs, out2, not_dedupe>>

\* dedupe_jobs applied to a list that is already deduplicated
DedupeAgain ==
    /\ dpc = "deduped"
    /\ out2' = dedupe_jobs(out)
    /\ dpc' = "twice"
    /\ UNCHANGED <<all_jobs, out, not_dedupe>>

NextDedupe == Dedupe \/ DedupeAgain

SpecDedupe == InitDedupe /\ [][NextDedupe]_vars

\* ---------------------------------------------------------------- C8
\* C8: dedup idempotence: dedupe_jobs applied to the output of dedupe_jobs
\* returns that output unchanged, for every input sequence.
C8_DedupIdempotent == dpc = "twice" => out2 = out

\* a list with a repeated key went through dedupe twice
C8_Witness == dpc = "twice" /\ Len(all_jobs) = 3 /\ Len(out) = 2

\* ---------------------------------------------------------------- C9
\* positions of all_jobs holding the first record of their key
FirstPositions(jobs) ==
    {k \in 1..Len(jobs) :
        \A m \in 1..(k - 1) : dedupe_key(jobs[m]) # dedupe_key(jobs[k])}

\* C9: first-occurrence-wins: the output is the subsequence of the input made
\* of the first record of each distinct key, in input order; no key occurs
\* twice in the output and every key of the input occurs in it.
C9_FirstOccurrenceWins ==
    dpc # "start" =>
        /\ Len(out) = Cardinality(FirstPositions(all_jobs))
        /\ \E f \in [1..Len(out) -> FirstPositions(all_jobs)] :
              /\ \A a, b \in 1..Len(out) : a < b => f[a] < f[b]
              /\ \A a \in 1..Len(out) : out[a] = all_jobs[f[a]]
        /\ \A a, b \in 1..Len(out) :
              a # b => dedupe_key(out[a]) # dedupe_key(out[b])
        /\ \A k \in 1..Len(all_jobs) :
              \E a \in 1..Len(out) : dedupe_key(out[a]) = dedupe_key(all_jobs[k])

\* a key seen first, then another key, then the first key again from another source
C9_Witness ==
    /\ dpc = "deduped" /\ Len(all_jobs) = 3 /\ Len(out) = 2
    /\ dedupe_key(all_jobs[1]) = dedupe_key(all_jobs[3])
    /\ all_jobs[1] # all_jobs[3]
    /\ out = <<all_jobs[1], all_jobs[2]>>

\* ---------------------------------------------------------------- C10
\* the four key fields, each trimmed and lower-cased (the key as C10 states it)
LowerTrimmed(j) ==
    <<Lower(Strip(j.company)), Lower(Strip(j.role)), Lower(Strip(j.location)),
      Lower(Strip(j.link))>>

\* company, role and location trimmed and lower-cased, the link trimmed only
LowerTrimmedCaseLink(j) ==
    <<Lower(Strip(j.company)), Lower(Strip(j.role)), Lower(Strip(j.location)),
      Strip(j.link)>>

\* C10 as stated: records whose company, role, location and link are pairwise
\* equal after trimming and lower-casing (links differing only in letter case
\* included) are reduced to one record by dedupe_jobs.
C10_Original ==
    dpc # "start" =>
        \A a, b \in 1..Len(out) :
            LowerTrimmed(out[a]) = LowerTrimmed(out[b]) => a = b

\* C10 amended: the identity key is the trimmed, lower-cased company, role and
\* location and the trimmed link in its original letter case: input records
\* that agree on these are reduced to the first of them, whatever their
\* source, and records that differ on one of them are all kept.
C10_KeyCaseSensitiveLink ==
    dpc # "start" =>
        /\ \A a, b \in 1..Len(out) :
              LowerTrimmedCaseLink(out[a]) = LowerTrimmedCaseLink(out[b]) => a = b
        /\ \A k \in 1..Len(all_jobs) :
              \E a \in 1..Len(out) :
                  LowerTrimmedCaseLink(out[a]) = LowerTrimmedCaseLink(all_jobs[k])

\* two records that differ in case, whitespace and source were merged, and a
\* record whose link differs only in letter case was kept beside them
C10_Witness ==
    /\ dpc = "deduped" /\ Len(all_jobs) = 3 /\ Len(out) = 2
    /\ all_jobs[1].source # all_jobs[2].source
    /\ all_jobs[1].company # all_jobs[2].company
    /\ LowerTrimmedCaseLink(all_jobs[1]) = LowerTrimmedCaseLink(all_jobs[2])
    /\ LowerTrimmed(all_jobs[3]) = LowerTrimmed(all_jobs[1])
    /\ out = <<all_jobs[1], all_jobs[3]>>

\* ---------------------------------------------------------------- apply: data
Statuses == {"Applied", "Flagged", "Pending"}

\* Links of the shortlisted records: <<host, "/", path>>, or the empty link.
L_linkedin  == <<"LINKEDIN.COM", "/", "j">>
L_naukri    == <<"naukri.com", "/", "j">>
L_wellfound == <<"wellfound.com", "/", "j">>
L_angel     == <<"angel.co", "/", "j">>
L_indeed    == <<"Indeed.com", "/", "j">>
L_other     == <<"remoteok.com", "/", "j">>
L_redirect  == <<"remoteok.com", "/", "linkedin.com">>
L_empty     == <<>>

ApplyLinks == {L_linkedin, L_naukri, L_wellfound, L_angel, L_indeed,
               L_other, L_redirect, L_empty}

ApplyJobs == {JobPost(S_ac, S_ml, S_in, l, "YC") : l \in ApplyLinks}

\* Lists of distinct objects with pairwise different keys, as dedupe_jobs leaves them.
Shortlists ==
    {sl \in SeqsUpTo(ApplyJobs, MaxShortlist) :
        \A a, b \in 1..Len(sl) : a # b => dedupe_key(sl[a]) # dedupe_key(sl[b])}

\* ---------------------------------------------------------------- cap step
\* the slice handed over last record first
to_apply_reversed(n, c) == [k \in 1..Min(n, c) |-> Min(n, c) + 1 - k]

\* shortlisted[:MAX_APPS_PER_RUN], as positions of shortlisted
to_apply_one_more(n, c) == [k \in 1..Min(n, c + 1) |-> k]

to_apply_of(n, c) == [k \in 1..Min(n, c) |-> k]

\* shortlisted[MAX_APPS_PER_RUN:], as positions of shortlisted
skipped_of(n, c) == {k \in 1..n : k > c}

\* ---------------------------------------------------------------- dispatch
\* a chain whose else branch runs the Indeed strategy
site_of_default_indeed(link) ==
    LET l == Lower(link)
    IN IF Contains(l, <<"linkedin.com">>) THEN "linkedin"
       ELSE IF Contains(l, <<"naukri.com">>) THEN "naukri"
       ELSE IF Contains(l, <<"wellfound.com">>) \/ Contains(l, <<"angel.co">>)
            THEN "wellfound"
       ELSE "indeed"

\* the if/elif chain of run_selenium_scans_and_apply on link = job.link.lower()
site_of(link) ==
    LET l == Lower(link)
    IN IF Contains(l, <<"linkedin.com">>) THEN "linkedin"
       ELSE IF Contains(l, <<"naukri.com">>) THEN "naukri"
       ELSE IF Contains(l, <<"wellfound.com">>) \/ Contains(l, <<"angel.co">>)
            THEN "wellfound"
       ELSE IF Contains(l, <<"indeed.com">>) THEN "indeed"
       ELSE "none"

\* the except clause of the dispatch loop
loop_except(st) == IF st # "Applied" THEN "Flagged" ELSE st

\* ---------------------------------------------------------------- driver
\* What a driver operation can do.  A find that raises (no such element,
\* timeout, stale element) is "notfound": every handler around a find is a
\* bare except or an except Exception.  An optional step (resume upload,
\* phone field) is "ok" when its element was found and the operation
\* returned, "failed" when the find or the operation raised.
Outcomes(st, drv) ==
    IF drv = "never_found"
    THEN CASE st = "nav" -> {"ok"}
           [] st \in {"find1", "find2", "submit_find"} -> {"notfound"}
           [] st \in {"upload", "tel"} -> {"failed"}
           [] OTHER -> {"ok", "raise"}
    ELSE CASE st \in {"nav", "click", "submit_click"} -> {"ok", "raise"}
           [] st \in {"find1", "find2", "submit_find"} -> {"found", "notfound"}
           [] OTHER -> {"ok", "failed"}

NoAttempt ==
    [nav |-> "none", apply_find |-> "none", apply_click |-> "none",
     opt_failed |-> FALSE, submit_find |-> "none", submit_click |-> "none"]

\* the attempt log after the driver operation of step st ended with outcome o
Logged(a, st, o) ==
    CASE st = "nav" -> [a EXCEPT !.nav = o]
      [] st \in {"find1", "find2"} -> [a EXCEPT !.apply_find = o]
      [] st = "click" -> [a EXCEPT !.apply_click = o]
      [] st \in {"upload", "tel"} -> [a EXCEPT !.opt_failed = @ \/ (o = "failed")]
      [] st = "submit_find" -> [a EXCEPT !.submit_find = o]
      [] st = "submit_click" -> [a EXCEPT !.submit_click = o]

\* ---------------------------------------------------------------- strategies
\* One step of a strategy: the step that follows ("ret": the strategy
\* returned), the status it writes ("keep": none) and whether an exception
\* leaves the strategy.
Goto(st) == [next |-> st, write |-> "keep", exc |-> FALSE]
Return(w) == [next |-> "ret", write |-> w, exc |-> FALSE]

\* linkedin_easy_apply that flags a listing without an apply button
linkedin_flag_no_button(st, o) ==
    CASE st = "nav" -> IF o = "ok" THEN Goto("find1") ELSE Return("Flagged")
      [] st = "find1" -> IF o = "found" THEN Goto("click") ELSE Goto("find2")
      [] st = "find2" -> IF o = "found" THEN Goto("click") ELSE Return("Flagged")
      [] st = "click" -> IF o = "ok" THEN Goto("upload") ELSE Return("Flagged")
      [] st = "upload" -> Goto("tel")
      [] st = "tel" -> Goto("submit_find")
      [] st = "submit_find" ->
            IF o = "found" THEN Goto("submit_click") ELSE Return("Flagged")
      [] st = "submit_click" ->
            IF o = "ok" THEN Return("Applied") ELSE Return("Flagged")

linkedin_easy_apply(st, o) ==
    CASE st = "nav" -> IF o = "ok" THEN Goto("find1") ELSE Return("Flagged")
      [] st = "find1" -> IF o = "found" THEN Goto("click") ELSE Goto("find2")
      [] st = "find2" -> IF o = "found" THEN Goto("click") ELSE Return("Pending")
      [] st = "click" -> IF o = "ok" THEN Goto("upload") ELSE Return("Flagged")
      [] st = "upload" -> Goto("tel")
      [] st = "tel" -> Goto("submit_find")
      [] st = "submit_find" ->
            IF o = "found" THEN Goto("submit_click") ELSE Return("Flagged")
      [] st = "submit_click" ->
            IF o = "ok" THEN Return("Applied") ELSE Return("Flagged")

\* naukri_easy_apply that writes Applied before clicking the submit button
naukri_applied_before_click(st, o) ==
    CASE st = "nav" -> IF o = "ok" THEN Goto("find1") ELSE Return("Flagged")
      [] st = "find1" -> IF o = "found" THEN Goto("click") ELSE Return("Pending")
      [] st = "click" -> IF o = "ok" THEN Goto("upload") ELSE Return("Pending")
      [] st = "upload" -> Goto("submit_find")
      [] st = "submit_find" ->
            IF o = "found"
            THEN [next |-> "submit_click", write |-> "Applied", exc |-> FALSE]
            ELSE Return("Flagged")
      [] st = "submit_click" ->
            IF o = "ok" THEN Return("Applied") ELSE Return("Flagged")

naukri_easy_apply(st, o) ==
    CASE st = "nav" -> IF o = "ok" THEN Goto("find1") ELSE Return("Flagged")
      [] st = "find1" -> IF o = "found" THEN Goto("click") ELSE Return("Pending")
      [] st = "click" -> IF o = "ok" THEN Goto("upload") ELSE Return("Pending")
      [] st = "upload" -> Goto("submit_find")
      [] st = "submit_find" ->
            IF o = "found" THEN Goto("submit_click") ELSE Return("Flagged")
      [] st = "submit_click" ->
            IF o = "ok" THEN Return("Applied") ELSE Return("Flagged")

\* wellfound_easy_apply that reports Applied when no submit button was found
wellfound_applied_without_submit(st, o) ==
    CASE st = "nav" -> IF o = "ok" THEN Goto("find1") ELSE Return("Flagged")
      [] st = "find1" -> IF o = "found" THEN Goto("click") ELSE Return("Pending")
      [] st = "click" -> IF o = "ok" THEN Goto("upload") ELSE Return("Pending")
      [] st = "upload" -> Goto("submit_find")
      [] st = "submit_find" ->
            IF o = "found" THEN Goto("submit_click") ELSE Return("Applied")
      [] st = "submit_click" ->
            IF o = "ok" THEN Return("Applied") ELSE Return("Flagged")

wellfound_easy_apply(st, o) ==
    CASE st = "nav" -> IF o = "ok" THEN Goto("find1") ELSE Return("Flagged")
      [] st = "find1" -> IF o = "found" THEN Goto("click") ELSE Return("Pending")
      [] st = "click" -> IF o = "ok" THEN Goto("upload") ELSE Return("Pending")
      [] st = "upload" -> Goto("submit_find")
      [] st = "submit_find" ->
            IF o = "found" THEN Goto("submit_click") ELSE Return("Flagged")
      [] st = "submit_click" ->
            IF o = "ok" THEN Return("Applied") ELSE Return("Flagged")

\* indeed_try_apply that reports Applied as soon as the apply click returned
indeed_applied_after_apply_click(st, o) ==
    CASE st = "nav" -> IF o = "ok" THEN Goto("find1") ELSE Return("Flagged")
      [] st = "find1" -> IF o = "found" THEN Goto("click") ELSE Return("Pending")
      [] st = "click" -> IF o = "ok" THEN Return("Applied") ELSE Return("Pending")
      [] st = "upload" -> Goto("submit_find")
      [] st = "submit_find" ->
            IF o = "found" THEN Goto("submit_click") ELSE Return("Flagged")
      [] st = "submit_click" ->
            IF o = "ok" THEN Return("Applied") ELSE Return("Flagged")

indeed_try_apply(st, o) ==
    CASE st = "nav" -> IF o = "ok" THEN Goto("find1") ELSE Return("Flagged")
      [] st = "find1" -> IF o = "found" THEN Goto("click") ELSE Return("Pending")
      [] st = "click" -> IF o = "ok" THEN Goto("upload") ELSE Return("Pending")
      [] st = "upload" -> Goto("submit_find")
      [] st = "submit_find" ->
            IF o = "found" THEN Goto("submit_click") ELSE Return("Flagged")
      [] st = "submit_click" ->
            IF o = "ok" THEN Return("Applied") ELSE Return("Flagged")

\* the strategy the dispatch chose, one step
strategy(s, st, o) ==
    CASE s = "linkedin" -> linkedin_easy_apply(st, o)
      [] s = "naukri" -> naukri_easy_apply(st, o)
      [] s = "wellfound" -> wellfound_easy_apply(st, o)
      [] s = "indeed" -> indeed_try_apply(st, o)

\* ---------------------------------------------------------------- Spec (apply stage)
\* main after the filter loop: every JobPost still has its default status.
Init ==
    /\ shortlisted \in Shortlists
    /\ cap \in 0..MaxCap
    /\ driver \in {"arbitrary", "never_found"}
    /\ status = [r \in 1..Len(shortlisted) |-> "Pending"]
    /\ to_apply = <<>>
    /\ pc = "cap" /\ i = 0 /\ site = "none" /\ step = "none"
    /\ att = NoAttempt
    /\ invoked = {} /\ touched = {} /\ dispatched = <<>> /\ exported = <<>>
    /\ DedupeIdle /\ SalaryIdle /\ ResumeIdle /\ CookiesIdle /\ ContactIdle
    /\ ScrapeIdle /\ PipelineIdle

\* main: to_apply / skipped slices, skipped records marked Pending
CapStep ==
    /\ pc = "cap"
    /\ to_apply' = to_apply_of(Len(shortlisted), cap)
    /\ status' = [r \in 1..Len(shortlisted) |->
                    IF r \in skipped_of(Len(shortlisted), cap)
                    THEN "Pending" ELSE status[r]]
    /\ pc' = "loop" /\ i' = 1
    /\ UNCHANGED <<shortlisted, cap, site, step, att, invoked, touched,
                   dispatched, driver, exported, not_apply>>

\* run_selenium_scans_and_apply: one record enters the loop body and is
\* classified; an unrecognized link is marked Pending at once
Dispatch ==
    /\ pc = "loop" /\ i <= Len(to_apply)
    /\ LET r == to_apply[i]
           s == site_of(shortlisted[r].link)
       IN /\ dispatched' = Append(dispatched, r)
          /\ site' = s
          /\ att' = NoAttempt
          /\ IF s = "none"
             THEN /\ status' = [status EXCEPT ![r] = "Pending"]
                  /\ pc' = "ret" /\ step' = "none"
                  /\ invoked' = invoked
             ELSE /\ status' = status
                  /\ pc' = "strategy" /\ step' = "nav"
                  /\ invoked' = invoked \cup {r}
    /\ UNCHANGED <<shortlisted, cap, to_apply, i, touched, driver, exported, not_apply>>

\* one driver operation of the running strategy and the strategy's reaction to it
StrategyStep ==
    /\ pc = "strategy"
    /\ \E o \in Outcomes(step, driver) :
        LET r == to_apply[i]
            res == strategy(site, step, o)
        IN /\ touched' = touched \cup {r}
           /\ att' = Logged(att, step, o)
           /\ status' = [status EXCEPT ![r] =
                            IF res.exc THEN loop_except(@)
                            ELSE IF res.write = "keep" THEN @ ELSE res.write]
           /\ step' = IF res.exc THEN "ret" ELSE res.next
           /\ pc' = IF res.exc \/ res.next = "ret" THEN "ret" ELSE "strategy"
    /\ UNCHANGED <<shortlisted, cap, to_apply, i, site, invoked, dispatched,
                   driver, exported, not_apply>>

\* a dispatch loop that stops at the first record left Flagged
LoopNextBreakOnFlagged ==
    /\ pc = "ret"
    /\ i' = IF status[to_apply[i]] = "Flagged" THEN Len(to_apply) + 1 ELSE i + 1
    /\ pc' = "loop" /\ site' = "none" /\ step' = "none" /\ att' = NoAttempt
    /\ UNCHANGED <<shortlisted, cap, status, to_apply, invoked, touched,
                   dispatched, driver, exported, not_apply>>

\* the for loop moves to the next record of to_apply
LoopNext ==
    /\ pc = "ret"
    /\ i' = i + 1
    /\ pc' = "loop" /\ site' = "none" /\ step' = "none" /\ att' = NoAttempt
    /\ UNCHANGED <<shortlisted, cap, status, to_apply, invoked, touched,
                   dispatched, driver, exported, not_apply>>

\* the loop is over: driver_apply.quit(), export_jobs(shortlisted, ...)
Export ==
    /\ pc = "loop" /\ i > Len(to_apply)
    /\ exported' = <<status>>
    /\ pc' = "done"
    /\ UNCHANGED <<shortlisted, cap, status, to_apply, i, site, step, att,
                   invoked, touched, dispatched, driver, not_apply>>

Next == CapStep \/ Dispatch \/ StrategyStep \/ LoopNext \/ Export

Spec == Init /\ [][Next]_vars

\* ---------------------------------------------------------------- C1
\* C1: cap enforcement: with a shortlist of k records and a cap c >= 0, the
\* list handed to the dispatch is the first min(k, c) records in their
\* original order, each of them enters the dispatch, and each of the other
\* max(0, k - c) records keeps status Pending to the end of the run with no
\* strategy invoked and no driver operation performed for it.
C1_CapEnforcement ==
    LET k == Len(shortlisted)
        m == Min(k, cap)
    IN pc # "cap" =>
        /\ to_apply = [n \in 1..m |-> n]
        /\ \A n \in 1..Len(dispatched) : dispatched[n] = n /\ n <= m
        /\ \A r \in (m + 1)..k :
              status[r] = "Pending" /\ r \notin invoked /\ r \notin touched
        /\ pc = "done" =>
              dispatched = to_apply /\ Len(exported[1]) = k

\* three shortlisted records, cap 2: two went through a strategy, the third did not
C1_Witness ==
    /\ pc = "done" /\ Len(shortlisted) = 3 /\ cap = 2
    /\ status[1] = "Applied" /\ touched = {1, 2} /\ status[3] = "Pending"

\* ---------------------------------------------------------------- C2
\* C2: terminal states are absorbing: no step of the run changes a status
\* that is Applied or Flagged.
C2_TerminalAbsorbing ==
    [][\A r \in 1..Len(status) :
          status[r] \in {"Applied", "Flagged"} => status'[r] = status[r]]_vars

\* an Applied and a Flagged record are still so after later records were
\* processed and the export was written
C2_Witness ==
    /\ pc = "done" /\ Len(to_apply) = 3
    /\ status[1] = "Applied" /\ status[2] = "Flagged" /\ touched = {1, 2, 3}

\* ---------------------------------------------------------------- C3
\* C3: strategy outcome rule, for each of the four strategies, when the
\* strategy returns: the record is Applied if the submit affordance was
\* located and its click returned; Flagged if the apply affordance was
\* located and clicked and the submit lookup located nothing; Pending if
\* the page loaded and the apply lookup located nothing.
C3_OutcomeRule ==
    (pc = "ret" /\ site # "none") =>
        LET st == status[to_apply[i]]
        IN /\ att.submit_click = "ok" => st = "Applied"
           /\ (att.apply_click = "ok" /\ att.submit_find = "notfound")
                 => st = "Flagged"
           /\ (att.nav = "ok" /\ att.apply_find = "notfound") => st = "Pending"

\* LinkedIn flagged for a missing submit button, Indeed left Pending for a
\* missing apply button, Wellfound applied
C3_Witness ==
    /\ pc = "ret" /\ i = 3 /\ site = "wellfound"
    /\ att.submit_click = "ok" /\ status[3] = "Applied"
    /\ site_of(shortlisted[1].link) = "linkedin" /\ status[1] = "Flagged"
    /\ site_of(shortlisted[2].link) = "indeed" /\ status[2] = "Pending"
    /\ 2 \in touched

\* ---------------------------------------------------------------- C4
\* C4: in every strategy, a navigation that raises, a click on a located
\* apply affordance that raises or a click on a located submit affordance
\* that raises leaves the record Flagged.
C4_FailureFlags ==
    (/\ pc = "ret" /\ site # "none"
     /\ \/ att.nav = "raise"
        \/ att.apply_click = "raise"
        \/ att.submit_click = "raise")
        => status[to_apply[i]] = "Flagged"

\* ---------------------------------------------------------------- C5
\* C5: totality: whatever the driver does, every status is Applied, Flagged
\* or Pending, no failure ends the batch early: by the end of the run every
\* record of the batch entered the loop body, every record with a recognized
\* site had its strategy run, and every row was exported.
C5_Totality ==
    /\ \A r \in 1..Len(status) : status[r] \in Statuses
    /\ pc = "done" =>
          /\ dispatched = to_apply
          /\ exported = <<status>>
          /\ \A r \in 1..Len(to_apply) :
                site_of(shortlisted[r].link) # "none" => r \in touched

\* the first record was flagged and the two records after it were still processed
C5_Witness ==
    /\ pc = "done" /\ driver = "arbitrary" /\ Len(to_apply) = 3
    /\ status = <<"Flagged", "Pending", "Applied">> /\ touched = {1, 2, 3}

\* ---------------------------------------------------------------- C6
\* C6 as stated: on a driver whose navigation succeeds and whose finds never
\* find anything, a strategy leaves the record Flagged.
C6_Original ==
    (driver = "never_found" /\ pc = "ret" /\ site # "none")
        => status[to_apply[i]] = "Flagged"

\* C6 amended: on a driver whose navigation succeeds and whose finds never
\* find anything, every strategy returns after the apply lookup and leaves
\* the record Pending.
C6_NeverFoundPending ==
    (driver = "never_found" /\ pc = "ret" /\ site # "none")
        => /\ status[to_apply[i]] = "Pending"
           /\ att.nav = "ok" /\ att.apply_find = "notfound"
           /\ att.apply_click = "none" /\ att.submit_find = "none"

\* the LinkedIn strategy returned on the never-found driver after a Naukri one
C6_Witness ==
    /\ driver = "never_found" /\ pc = "ret" /\ site = "linkedin" /\ i = 2
    /\ site_of(shortlisted[1].link) = "naukri" /\ touched = {1, 2}

\* ---------------------------------------------------------------- C7
RecognizedHosts ==
    {"linkedin.com", "naukri.com", "wellfound.com", "angel.co", "indeed.com"}

\* the host of a link, lower-cased ("" for the empty link)
HostOf(link) == IF link = <<>> THEN "" ELSE LowerChar(link[1])

\* C7: a record whose link's host is not a recognized site is left Pending
\* and no strategy and no driver operation is performed for it, even when a
\* recognized site name occurs in the path of the link.
C7_UnrecognizedHostUntouched ==
    \A r \in 1..Len(shortlisted) :
        HostOf(shortlisted[r].link) \notin RecognizedHosts =>
            /\ status[r] = "Pending"
            /\ r \notin invoked
            /\ r \notin touched

\* ---------------------------------------------------------------- salary text
\* Salary texts are sequences of characters.  The currency signs and the
\* long dashes are the atoms "INR_SIGN", "EUR_SIGN", "GBP_SIGN", "EM_DASH",
\* "EN_DASH".  A parsed amount is the exact fraction num / den.
DigitChars == <<"0", "1", "2", "3", "4", "5", "6", "7", "8", "9">>

IsDigit(s, p) == p \in 1..Len(s) /\ \E d \in 1..10 : DigitChars[d] = s[p]

DigitVal(c) == (CHOOSE d \in 1..10 : DigitChars[d] = c) - 1

\* str.replace(old, new) for a one-character old and new
ReplaceChar(s, old, new) == [k \in 1..Len(s) |-> IF s[k] = old THEN new ELSE s[k]]

\* str.replace(old, "") for a one-character old
RemoveChar(s, old) == SelectSeq(s, LAMBDA x : x # old)

\* last position of the digit run that starts at p
RECURSIVE DigitsEnd(_, _)
DigitsEnd(s, p) == IF IsDigit(s, p + 1) THEN DigitsEnd(s, p + 1) ELSE p

\* value of the digits s[p..e]
RECURSIVE NatOf(_, _, _)
NatOf(s, p, e) == IF e < p THEN 0 ELSE NatOf(s, p, e - 1) * 10 + DigitVal(s[e])

RECURSIVE Pow10(_)
Pow10(n) == IF n = 0 THEN 1 ELSE 10 * Pow10(n - 1)

\* the match of \d+(?:\.\d+)? that starts at p, and float() of it
NumberAt(s, p) ==
    LET e == DigitsEnd(s, p)
    IN IF e + 1 <= Len(s) /\ s[e + 1] = "." /\ IsDigit(s, e + 2)
       THEN LET f == DigitsEnd(s, e + 2)
            IN [last |-> f,
                num |-> NatOf(s, p, e) * Pow10(f - e - 1) + NatOf(s, e + 2, f),
                den |-> Pow10(f - e - 1)]
       ELSE [last |-> e, num |-> NatOf(s, p, e), den |-> 1]

\* \s* from p on: the first position that is not whitespace
RECURSIVE SkipSpaces(_, _)
SkipSpaces(s, p) ==
    IF p <= Len(s) /\ s[p] = " " THEN SkipSpaces(s, p + 1) ELSE p

\* the regex (\d+(?:\.\d+)?)\s*-\s*(\d+(?:\.\d+)?) matches at p
RangeAt(s, p) ==
    /\ IsDigit(s, p)
    /\ LET q == SkipSpaces(s, NumberAt(s, p).last + 1)
       IN /\ q <= Len(s) /\ s[q] = "-"
          /\ IsDigit(s, SkipSpaces(s, q + 1))

\* a search that never finds a range
RangeStart_none(s) == 0

\* re.search of the range regex: start of the leftmost match, 0 if none
RangeStart(s) ==
    IF \E p \in 1..Len(s) : RangeAt(s, p)
    THEN CHOOSE p \in 1..Len(s) :
            RangeAt(s, p) /\ \A q \in 1..(p - 1) : ~RangeAt(s, q)
    ELSE 0

\* re.findall(r"\d+(?:\.\d+)?", s)[0]: start of the first number, 0 if none
FirstNumberStart(s) ==
    IF \E p \in 1..Len(s) : IsDigit(s, p)
    THEN CHOOSE p \in 1..Len(s) :
            IsDigit(s, p) /\ \A q \in 1..(p - 1) : ~IsDigit(s, q)
    ELSE 0

\* CURRENCY_SYMBOLS, in insertion order
CURRENCY_SYMBOLS ==
    << [sym |-> <<"$">>, code |-> "USD"],
       [sym |-> <<"EUR_SIGN">>, code |-> "EUR"],
       [sym |-> <<"GBP_SIGN">>, code |-> "GBP"],
       [sym |-> <<"INR_SIGN">>, code |-> "INR"],
       [sym |-> <<"R", "s">>, code |-> "INR"],
       [sym |-> <<"I", "N", "R">>, code |-> "INR"],
       [sym |-> <<"U", "S", "D">>, code |-> "USD"],
       [sym |-> <<"E", "U", "R">>, code |-> "EUR"],
       [sym |-> <<"G", "B", "P">>, code |-> "GBP"] >>

\* the loop over CURRENCY_SYMBOLS with its break; "None" when nothing matched
RECURSIVE first_currency(_, _)
first_currency(s, k) ==
    IF k > Len(CURRENCY_SYMBOLS) THEN "None"
    ELSE IF Contains(s, CURRENCY_SYMBOLS[k].sym) THEN CURRENCY_SYMBOLS[k].code
    ELSE first_currency(s, k + 1)

\* the regex per\s*<word> matches somewhere in s
ContainsPer(s, word) ==
    \E p \in 1..Len(s) :
        /\ p + 2 <= Len(s)
        /\ SubSeq(s, p, p + 2) = <<"p", "e", "r">>
        /\ LET q == SkipSpaces(s, p + 3)
           IN /\ q + Len(word) - 1 <= Len(s)
              /\ SubSeq(s, q, q + Len(word) - 1) = word

\* a yearly test that does not know "per annum"
yearly_keyword_no_annum(s) ==
    LET l == Lower(s)
    IN \/ ContainsPer(l, <<"y", "e", "a", "r">>)
       \/ Contains(l, <<"p", "a">>) \/ Contains(l, <<"p", ".", "a", ".">>)
       \/ Contains(l, <<"a", "n", "n", "u", "a", "l", "l", "y">>) \/ Contains(l, <<"a", "n", "n", "u", "a", "l">>)
       \/ Contains(l, <<"y", "e", "a", "r", "l", "y">>)

\* re.search(r"per\s*year|per\s*annum|pa|p\.a\.|annually|annual|yearly", s, re.I)
yearly_keyword(s) ==
    LET l == Lower(s)
    IN \/ ContainsPer(l, <<"y", "e", "a", "r">>) \/ ContainsPer(l, <<"a", "n", "n", "u", "m">>)
       \/ Contains(l, <<"p", "a">>) \/ Contains(l, <<"p", ".", "a", ".">>)
       \/ Contains(l, <<"a", "n", "n", "u", "a", "l", "l", "y">>) \/ Contains(l, <<"a", "n", "n", "u", "a", "l">>)
       \/ Contains(l, <<"y", "e", "a", "r", "l", "y">>)

\* re.search(r"per\s*month|/month|monthly|month", s, re.I)
monthly_keyword(s) ==
    LET l == Lower(s)
    IN \/ ContainsPer(l, <<"m", "o", "n", "t", "h">>) \/ Contains(l, <<"/", "m", "o", "n", "t", "h">>)
       \/ Contains(l, <<"m", "o", "n", "t", "h", "l", "y">>) \/ Contains(l, <<"m", "o", "n", "t", "h">>)

NoSalary == [kind |-> "none"]

\* low / 12.0
Div12(x) == [num |-> x.num, den |-> x.den * 12]

\* low > n for a fraction low and an integer n
Above(x, n) == x.num > n * x.den

\* the tail of extract_salary_numbers: unit and monthly figure of amount low
\* with the large-amount test written >= instead of >
salary_of_low_at_threshold(s, currency, low) ==
    LET unit == IF monthly_keyword(s) THEN "monthly"
                ELSE IF yearly_keyword(s) THEN "yearly" ELSE "monthly"
        monthly ==
            IF unit = "yearly" THEN Div12(low)
            ELSE IF currency = "INR" /\ low.num >= 200000 * low.den THEN Div12(low)
            ELSE IF currency = "USD" /\ low.num >= 100000 * low.den THEN Div12(low)
            ELSE low
    IN [kind |-> "salary", monthly |-> monthly,
        currency |-> IF currency = "None" THEN "UNKNOWN" ELSE currency,
        unit |-> unit]

\* the tail of extract_salary_numbers: unit and monthly figure of amount low
salary_of_low(s, currency, low) ==
    LET unit == IF monthly_keyword(s) THEN "monthly"
                ELSE IF yearly_keyword(s) THEN "yearly" ELSE "monthly"
        monthly ==
            IF unit = "yearly" THEN Div12(low)
            ELSE IF currency = "INR" /\ Above(low, 200000) THEN Div12(low)
            ELSE IF currency = "USD" /\ Above(low, 100000) THEN Div12(low)
            ELSE low
    IN [kind |-> "salary", monthly |-> monthly,
        currency |-> IF currency = "None" THEN "UNKNOWN" ELSE currency,
        unit |-> unit]

extract_salary_numbers(text) ==
    IF text = <<>> THEN NoSalary
    ELSE LET s == ReplaceChar(ReplaceChar(RemoveChar(text, ","), "EM_DASH", "-"),
                              "EN_DASH", "-")
             currency == first_currency(s, 1)
             r == RangeStart(s)
             n == FirstNumberStart(s)
         IN IF r # 0 THEN
                salary_of_low(s, currency,
                    [num |-> NumberAt(s, r).num, den |-> NumberAt(s, r).den])
            ELSE IF n # 0 THEN
                salary_of_low(s, currency,
                    [num |-> NumberAt(s, n).num, den |-> NumberAt(s, n).den])
            ELSE NoSalary

\* ------------------------------------------------------------- salary cutoff
\* SALARY_CUTOFFS, in insertion order
SALARY_CUTOFFS ==
    << [name |-> <<"i", "n", "d", "i", "a">>, val |-> 70000],
       [name |-> <<"u", "n", "i", "t", "e", "d", " ", "s", "t", "a", "t", "e", "s">>, val |-> 4000],
       [name |-> <<"u", "s", "a">>, val |-> 4000],
       [name |-> <<"u", "s">>, val |-> 4000],
       [name |-> <<"g", "e", "r", "m", "a", "n", "y">>, val |-> 3000],
       [name |-> <<"u", "k">>, val |-> 2500],
       [name |-> <<"d", "e", "f", "a", "u", "l", "t">>, val |-> 0] >>

\* SALARY_CUTOFFS.get(name, dflt)
cutoff_get(name, dflt) ==
    IF \E k \in 1..Len(SALARY_CUTOFFS) : SALARY_CUTOFFS[k].name = name
    THEN SALARY_CUTOFFS[CHOOSE k \in 1..Len(SALARY_CUTOFFS) :
                            SALARY_CUTOFFS[k].name = name].val
    ELSE dflt

\* the same loop without the break: the last matching entry wins
RECURSIVE location_cutoff_last(_, _, _)
location_cutoff_last(loc, k, cutoff) ==
    IF k > Len(SALARY_CUTOFFS) THEN cutoff
    ELSE IF SALARY_CUTOFFS[k].name = <<"d", "e", "f", "a", "u", "l", "t">> THEN location_cutoff_last(loc, k + 1, cutoff)
    ELSE IF Contains(loc, SALARY_CUTOFFS[k].name)
         THEN location_cutoff_last(loc, k + 1, SALARY_CUTOFFS[k].val)
    ELSE location_cutoff_last(loc, k + 1, cutoff)

\* the loop over SALARY_CUTOFFS from entry k on, with its continue and break
RECURSIVE location_cutoff(_, _, _)
location_cutoff(loc, k, cutoff) ==
    IF k > Len(SALARY_CUTOFFS) THEN cutoff
    ELSE IF SALARY_CUTOFFS[k].name = <<"d", "e", "f", "a", "u", "l", "t">> THEN location_cutoff(loc, k + 1, cutoff)
    ELSE IF Contains(loc, SALARY_CUTOFFS[k].name) THEN SALARY_CUTOFFS[k].val
    ELSE location_cutoff(loc, k + 1, cutoff)

\* the fallback on the currency, taken when no location matched
currency_cutoff(currency, cutoff) ==
    IF currency = "INR" THEN cutoff_get(<<"i", "n", "d", "i", "a">>, cutoff)
    ELSE IF currency = "USD" THEN cutoff_get(<<"u", "n", "i", "t", "e", "d", " ", "s", "t", "a", "t", "e", "s">>, cutoff)
    ELSE IF currency = "EUR" THEN cutoff_get(<<"g", "e", "r", "m", "a", "n", "y">>, cutoff)
    ELSE IF currency = "GBP" THEN cutoff_get(<<"u", "k">>, cutoff)
    ELSE cutoff

\* the cutoff meets_cutoff compares with, for a parsed salary
cutoff_of(location, currency) ==
    LET loc == Lower(location)
        cutoff == location_cutoff(loc, 1, cutoff_get(<<"d", "e", "f", "a", "u", "l", "t">>, 0))
    IN IF cutoff = cutoff_get(<<"d", "e", "f", "a", "u", "l", "t">>, 0)
       THEN currency_cutoff(currency, cutoff)
       ELSE cutoff

\* meets_cutoff that rejects a salary text without a number
meets_cutoff_reject_unparsed(job) ==
    IF job.salary = <<>> \/ Upper(job.salary) \in {<<"N", "/", "A">>, <<"N", "O", "T", " ", "P", "R", "O", "V", "I", "D", "E", "D">>, <<>>}
    THEN TRUE
    ELSE LET parsed == extract_salary_numbers(job.salary)
         IN IF parsed.kind = "none" THEN FALSE
            ELSE parsed.monthly.num >=
                     cutoff_of(job.location, parsed.currency) * parsed.monthly.den

meets_cutoff(job) ==
    IF job.salary = <<>> \/ Upper(job.salary) \in {<<"N", "/", "A">>, <<"N", "O", "T", " ", "P", "R", "O", "V", "I", "D", "E", "D">>, <<>>}
    THEN TRUE
    ELSE LET parsed == extract_salary_numbers(job.salary)
         IN IF parsed.kind = "none" THEN TRUE
            ELSE parsed.monthly.num >=
                     cutoff_of(job.location, parsed.currency) * parsed.monthly.den

\* ------------------------------------------------------------ salary inputs
\* The salary texts a listing can carry: a currency mark, an amount (plain or
\* with thousands separators, alone or as the low end of a range) and a
\* period wording; and texts without that shape.  The field parts records
\* how the text was put together.
DigitChar(d) == DigitChars[d + 1]

RECURSIVE DigitsOf(_)
DigitsOf(n) ==
    IF n < 10 THEN <<DigitChar(n)>>
    ELSE Append(DigitsOf(n \div 10), DigitChar(n % 10))

RECURSIVE WithCommas(_)
WithCommas(d) ==
    IF Len(d) <= 3 THEN d
    ELSE WithCommas(SubSeq(d, 1, Len(d) - 3)) \o <<",">> \o SubSeq(d, Len(d) - 2, Len(d))

FormatAmount(n, style) ==
    IF style = "commas" THEN WithCommas(DigitsOf(n)) ELSE DigitsOf(n)

CurrencyMarks ==
    { [text |-> <<"$">>, code |-> "USD"],
      [text |-> <<"INR_SIGN">>, code |-> "INR"],
      [text |-> <<"R", "s", " ">>, code |-> "INR"],
      [text |-> <<"EUR_SIGN">>, code |-> "EUR"],
      [text |-> <<"GBP_SIGN">>, code |-> "GBP"],
      [text |-> <<"C", "A", "D", " ">>, code |-> "UNKNOWN"],
      [text |-> <<>>, code |-> "UNKNOWN"] }

Amounts ==
    {2500, 4000, 8000, 69999, 70000, 100000, 100001, 200000, 200001, 250000, 900000}

PeriodWords ==
    { [text |-> <<" ", "p", "e", "r", " ", "a", "n", "n", "u", "m">>, period |-> "annual"],
      [text |-> <<" ", "P", "E", "R", " ", "A", "N", "N", "U", "M">>, period |-> "annual"],
      [text |-> <<" ", "p", "e", "r", " ", "y", "e", "a", "r">>, period |-> "annual"],
      [text |-> <<" ", "p", "a">>, period |-> "annual"],
      [text |-> <<" ", "p", ".", "a", ".">>, period |-> "annual"],
      [text |-> <<" ", "a", "n", "n", "u", "a", "l", "l", "y">>, period |-> "annual"],
      [text |-> <<" ", "y", "e", "a", "r", "l", "y">>, period |-> "annual"],
      [text |-> <<"/", "m", "o", "n", "t", "h">>, period |-> "monthly"],
      [text |-> <<" ", "p", "e", "r", " ", "m", "o", "n", "t", "h">>, period |-> "monthly"],
      [text |-> <<" ", "M", "o", "n", "t", "h", "l", "y">>, period |-> "monthly"],
      [text |-> <<" ", "p", "e", "r", " ", "a", "n", "n", "u", "m", " ", "p", "a", "i", "d", " ", "m", "o", "n", "t", "h", "l", "y">>, period |-> "both"],
      [text |-> <<" ", "n", "e", "t">>, period |-> "none"],
      [text |-> <<>>, period |-> "none"] }

RangeSeps == { <<>>, <<"-">>, <<" ", "EN_DASH", " ">> }

\* how the amount is written: plain digits alone or as the low end of a
\* range, or digits with thousands separators
AmountFormats ==
    { [style |-> "plain", sep |-> x] : x \in RangeSeps }
        \cup { [style |-> "commas", sep |-> <<>>] }

ComposedSalaries ==
    { [salary |-> c.text \o FormatAmount(a, f.style)
                  \o (IF f.sep = <<>> THEN <<>>
                      ELSE f.sep \o FormatAmount(2 * a, f.style))
                  \o w.text,
       parts |-> [composed |-> TRUE, currency |-> c.code, amount |-> a,
                  period |-> w.period, ranged |-> f.sep # <<>>, lead |-> 0]] :
        c \in CurrencyMarks, a \in Amounts, f \in AmountFormats,
        w \in PeriodWords }

OtherSalaries ==
    { [salary |-> t,
       parts |-> [composed |-> FALSE, currency |-> "UNKNOWN", amount |-> 0,
                  period |-> "none", ranged |-> FALSE, lead |-> 0]] :
        t \in { <<>>, <<"N", "/", "A">>, <<"n", "/", "a">>, <<"N", "o", "t", " ", "P", "r", "o", "v", "i", "d", "e", "d">>, <<"N", "e", "g", "o", "t", "i", "a", "b", "l", "e">>,
                <<"C", "o", "m", "p", "e", "t", "i", "t", "i", "v", "e", " ", "p", "a", "y">>, <<"INR_SIGN", " ", "a", "s", " ", "p", "e", "r", " ", "n", "o", "r", "m", "s">> } }

\* texts in which a number stands before the amount: a count of openings,
\* then the amount alone or as the low end of a range (field lead is the
\* number in front)
LeadWords ==
    { [text |-> <<"3", " ", "p", "o", "s", "t", "s", ",", " ">>, lead |-> 3],
      [text |-> <<"2", " ", "o", "p", "e", "n", "i", "n", "g", "s", ":", " ">>, lead |-> 2] }

PrefixedSalaries ==
    { [salary |-> l.text \o c.text \o FormatAmount(a, f.style)
                  \o (IF f.sep = <<>> THEN <<>>
                      ELSE f.sep \o FormatAmount(2 * a, f.style))
                  \o w.text,
       parts |-> [composed |-> FALSE, currency |-> c.code, amount |-> a,
                  period |-> w.period, ranged |-> f.sep # <<>>,
                  lead |-> l.lead]] :
        l \in LeadWords,
        c \in { m \in CurrencyMarks : m.text \in {<<"INR_SIGN">>, <<"$">>} },
        a \in {4000, 250000},
        f \in AmountFormats \cup { [style |-> "commas", sep |-> <<" ", "EN_DASH", " ">>] },
        w \in { x \in PeriodWords :
                  x.text \in {<<" ", "p", "e", "r", " ", "a", "n", "n", "u", "m">>, <<" ", "p", "e", "r", " ", "m", "o", "n", "t", "h">>, <<>>} } }

Locations ==
    { <<>>, <<"R", "e", "m", "o", "t", "e">>, <<"I", "n", "d", "i", "a">>, <<"U", "S", " ", "/", " ", "I", "n", "d", "i", "a">>, <<"A", "u", "s", "t", "i", "n">>,
      <<"U", "n", "i", "t", "e", "d", " ", "S", "t", "a", "t", "e", "s">>, <<"B", "e", "r", "l", "i", "n", ",", " ", "G", "e", "r", "m", "a", "n", "y">>, <<"L", "o", "n", "d", "o", "n", ",", " ", "U", "K">> }

SalaryJobs ==
    { [salary |-> t.salary, location |-> l, parts |-> t.parts] :
        t \in ComposedSalaries \cup PrefixedSalaries \cup OtherSalaries,
        l \in Locations }

\* ------------------------------------------------------ specification: salary
InitSalary ==
    /\ s_job \in SalaryJobs
    /\ s_parsed = <<>>
    /\ s_pass = FALSE
    /\ s_pc = "start"
    /\ DedupeIdle /\ ApplyIdle /\ ResumeIdle /\ CookiesIdle /\ ContactIdle
    /\ ScrapeIdle /\ PipelineIdle

\* extract_salary_numbers(job.salary)
Parse ==
    /\ s_pc = "start"
    /\ s_parsed' = extract_salary_numbers(s_job.salary)
    /\ s_pc' = "parsed"
    /\ UNCHANGED <<s_job, s_pass, not_salary>>

\* meets_cutoff(job)
Cutoff ==
    /\ s_pc = "parsed"
    /\ s_pass' = meets_cutoff(s_job)
    /\ s_pc' = "filtered"
    /\ UNCHANGED <<s_job, s_parsed, not_salary>>

NextSalary == Parse \/ Cutoff

SpecSalary == InitSalary /\ [][NextSalary]_vars

\* ------------------------------------------------------------ claims: salary
NoNumber(text) == \A p \in 1..Len(text) : ~IsDigit(text, p)

\* C11: meets_cutoff returns true for a record whose salary is empty, "N/A"
\* or a text from which no number can be parsed, whatever its location.
C11_UnknownSalaryPasses ==
    (/\ s_pc = "filtered"
     /\ \/ s_job.salary = <<>>
        \/ s_job.salary = <<"N", "/", "A">>
        \/ NoNumber(s_job.salary))
    => s_pass = TRUE

C11_Witness ==
    /\ s_pc = "filtered"
    /\ s_job.salary = <<"N", "e", "g", "o", "t", "i", "a", "b", "l", "e">>
    /\ s_job.location = <<"I", "n", "d", "i", "a">>
    /\ s_pass = TRUE

\* the entries of the cutoff table whose name occurs in the lower-cased location
KnownLocations(location) ==
    { k \in 1..Len(SALARY_CUTOFFS) :
        /\ SALARY_CUTOFFS[k].name # <<"d", "e", "f", "a", "u", "l", "t">>
        /\ Contains(Lower(location), SALARY_CUTOFFS[k].name) }

CurrencyCountry(currency) ==
    CASE currency = "INR" -> <<"i", "n", "d", "i", "a">>
      [] currency = "USD" -> <<"u", "n", "i", "t", "e", "d", " ", "s", "t", "a", "t", "e", "s">>
      [] currency = "EUR" -> <<"g", "e", "r", "m", "a", "n", "y">>
      [] currency = "GBP" -> <<"u", "k">>
      [] OTHER -> <<"d", "e", "f", "a", "u", "l", "t">>

ExpectedCutoff(location, currency) ==
    LET m == KnownLocations(location)
    IN IF m # {}
       THEN SALARY_CUTOFFS[CHOOSE k \in m : \A j \in m : k <= j].val
       ELSE SALARY_CUTOFFS[CHOOSE k \in 1..Len(SALARY_CUTOFFS) :
                SALARY_CUTOFFS[k].name = CurrencyCountry(currency)].val

\* C12: for a parsed salary the cutoff is that of the first entry of the
\* cutoff table whose name is a substring of the lower-cased location; only
\* when no entry matches it is the cutoff of the currency (INR india, USD
\* united states, EUR germany, GBP uk); when neither applies it is 0 and the
\* record passes.  The record passes exactly when its monthly figure is at
\* least the cutoff.
C12_CutoffPrecedence ==
    (s_pc = "filtered" /\ s_parsed.kind = "salary")
    => /\ s_pass = (s_parsed.monthly.num >=
                      ExpectedCutoff(s_job.location, s_parsed.currency)
                        * s_parsed.monthly.den)
       /\ (/\ KnownLocations(s_job.location) = {}
           /\ s_parsed.currency \notin {"INR", "USD", "EUR", "GBP"})
          => s_pass = TRUE

C12_Witness ==
    /\ s_pc = "filtered"
    /\ s_job.location = <<"U", "S", " ", "/", " ", "I", "n", "d", "i", "a">>
    /\ s_job.salary = <<"$", "8", "0", "0", "0", "/", "m", "o", "n", "t", "h">>
    /\ s_parsed.currency = "USD"
    /\ s_pass = FALSE

BelowThresholds(parts) ==
    /\ ~(parts.currency = "INR" /\ parts.amount > 200000)
    /\ ~(parts.currency = "USD" /\ parts.amount > 100000)

\* the parsed monthly figure equals amount / k
MonthlyIs(parsed, amount, k) == parsed.monthly.num * k = amount * parsed.monthly.den

\* C13: a text with an annual keyword and no monthly keyword gives the amount
\* divided by 12 and the period yearly; a text with a monthly keyword and an
\* amount below the large-amount thresholds gives the amount unchanged and
\* the period monthly.
C13_PeriodKeywords ==
    (s_pc # "start" /\ s_job.parts.composed)
    => /\ s_job.parts.period = "annual"
          => /\ s_parsed.unit = "yearly"
             /\ MonthlyIs(s_parsed, s_job.parts.amount, 12)
       /\ (s_job.parts.period = "monthly" /\ BelowThresholds(s_job.parts))
          => /\ s_parsed.unit = "monthly"
             /\ MonthlyIs(s_parsed, s_job.parts.amount, 1)
       /\ s_job.salary = <<"$", "8", "0", "0", "0", "/", "m", "o", "n", "t", "h">>
          => s_parsed = [kind |-> "salary", monthly |-> [num |-> 8000, den |-> 1],
                         currency |-> "USD", unit |-> "monthly"]

C13_Witness ==
    /\ s_pc = "parsed"
    /\ s_job.salary = <<"INR_SIGN", "9", "0", "0", "0", "0", "0", " ", "p", "e", "r", " ", "a", "n", "n", "u", "m">>
    /\ MonthlyIs(s_parsed, 75000, 1)
    /\ s_parsed.currency = "INR"
    /\ s_parsed.unit = "yearly"

LargeAmount(parts) ==
    \/ parts.currency = "INR" /\ parts.amount > 200000
    \/ parts.currency = "USD" /\ parts.amount > 100000

\* C14 as stated: without a period keyword an INR amount above 200000 or a
\* USD amount above 100000 gives the amount divided by 12 and the returned
\* period yearly; other amounts are unchanged.
C14_Original ==
    (s_pc # "start" /\ s_job.parts.composed /\ s_job.parts.period = "none")
    => IF LargeAmount(s_job.parts)
       THEN MonthlyIs(s_parsed, s_job.parts.amount, 12) /\ s_parsed.unit = "yearly"
       ELSE MonthlyIs(s_parsed, s_job.parts.amount, 1)

\* C14: without a period keyword an INR amount above 200000 or a USD amount
\* above 100000 gives the amount divided by 12 while the returned period
\* stays monthly; amounts at or below the threshold and amounts in another
\* or an unknown currency are unchanged, with period monthly.
C14_LargeAmountHeuristic ==
    (s_pc # "start" /\ s_job.parts.composed /\ s_job.parts.period = "none")
    => /\ s_parsed.unit = "monthly"
       /\ IF LargeAmount(s_job.parts)
          THEN MonthlyIs(s_parsed, s_job.parts.amount, 12)
          ELSE MonthlyIs(s_parsed, s_job.parts.amount, 1)

C14_Witness ==
    /\ s_pc = "parsed"
    /\ s_job.salary = <<"INR_SIGN", "2", "5", "0", "0", "0", "0">>
    /\ MonthlyIs(s_parsed, 250000, 12)
    /\ s_parsed.unit = "monthly"

\* ------------------------------------------------------------- resume filter
\* RESUME_KEYWORDS, in list order
RESUME_KEYWORDS ==
    << <<"m", "a", "c", "h", "i", "n", "e", " ", "l", "e", "a", "r", "n", "i", "n", "g">>,
       <<"d", "e", "e", "p", " ", "l", "e", "a", "r", "n", "i", "n", "g">>,
       <<"c", "o", "m", "p", "u", "t", "e", "r", " ", "v", "i", "s", "i", "o", "n">>,
       <<"o", "p", "e", "n", "c", "v">>,
       <<"i", "m", "a", "g", "e", " ", "p", "r", "o", "c", "e", "s", "s", "i", "n", "g">>,
       <<"e", "m", "b", "e", "d", "d", "e", "d">>,
       <<"t", "i", "n", "y", "m", "l">>,
       <<"e", "d", "g", "e", " ", "a", "i">>,
       <<"e", "s", "p", "3", "2">>,
       <<"e", "s", "p", "3", "2", "-", "s", "3">>,
       <<"e", "s", "p", "-", "i", "d", "f">>,
       <<"r", "o", "s">>,
       <<"r", "o", "b", "o", "t", "i", "c", "s">>,
       <<"a", "u", "t", "o", "n", "o", "m", "o", "u", "s">>,
       <<"y", "o", "l", "o", "v", "5">>,
       <<"o", "p", "e", "n", "3", "d">>,
       <<"l", "i", "d", "a", "r">>,
       <<"p", "y", "t", "h", "o", "n">>,
       <<"c", "+", "+">>,
       <<"t", "e", "n", "s", "o", "r", "f", "l", "o", "w">>,
       <<"k", "e", "r", "a", "s">>,
       <<"s", "c", "i", "k", "i", "t", "-", "l", "e", "a", "r", "n">>,
       <<"e", "d", "g", "e", " ", "i", "m", "p", "u", "l", "s", "e">>,
       <<"t", "i", "n", "y", "m", "l">>,
       <<"e", "m", "b", "e", "d", "d", "e", "d", " ", "s", "y", "s", "t", "e", "m", "s">>,
       <<"m", "i", "c", "r", "o", "c", "o", "n", "t", "r", "o", "l", "l", "e", "r">>,
       <<"e", "s", "p", "3", "2">> >>

\* " ".join([a, b, c])
JoinSpace(a, b, c) == a \o <<" ">> \o b \o <<" ">> \o c

\* the loop of matches_resume over the keyword list kws, from entry k on
RECURSIVE match_loop(_, _, _)
match_loop(text, kws, k) ==
    IF k > Len(kws) THEN FALSE
    ELSE IF Contains(text, Lower(kws[k])) THEN TRUE
    ELSE match_loop(text, kws, k + 1)

\* the text matches_resume searches
resume_text(job) == Lower(JoinSpace(job.role, job.company, job.description_snippet))

matches_resume(job) == match_loop(resume_text(job), RESUME_KEYWORDS, 1)

Reverse(s) == [k \in 1..Len(s) |-> s[Len(s) + 1 - k]]

Rotate(s) == IF s = <<>> THEN s ELSE Append(Tail(s), Head(s))

\* the keyword list in other orders
KeywordOrders == { Reverse(RESUME_KEYWORDS), Rotate(RESUME_KEYWORDS) }

ResumeJobs ==
    { [role |-> r, company |-> c, description_snippet |-> d] :
        r \in { <<>>, <<"A", "c", "c", "o", "u", "n", "t", "a", "n", "t">>, <<"P", "y", "t", "h", "o", "n", " ", "D", "e", "v", "e", "l", "o", "p", "e", "r">>, <<"S", "e", "n", "i", "o", "r", " ", "M", "a", "c", "h", "i", "n", "e">>,
                <<"E", "m", "b", "e", "d", "d", "e", "d", " ", "C", "+", "+", " ", "E", "n", "g", "i", "n", "e", "e", "r">>, <<"E", "d", "g", "e">>, <<"P", "y", "t", "h">> },
        c \in { <<>>, <<"A", "c", "m", "e">>, <<"L", "e", "a", "r", "n", "i", "n", "g", " ", "T", "r", "e", "e">>, <<"A", "I", " ", "L", "a", "b", "s">>, <<"o", "n", " ", "L", "t", "d">> },
        d \in { <<>>, <<"S", "a", "l", "e", "s">>, <<"O", "p", "e", "n", "C", "V", " ", "p", "i", "p", "e", "l", "i", "n", "e", "s">>, <<"v", "i", "s", "i", "o", "n", " ", "s", "y", "s", "t", "e", "m", "s">> } }

\* ----------------------------------------------------- specification: resume
InitResume ==
    /\ r_job \in ResumeJobs
    /\ r_kws \in KeywordOrders
    /\ r_match = FALSE
    /\ r_pc = "start"
    /\ DedupeIdle /\ ApplyIdle /\ SalaryIdle /\ CookiesIdle /\ ContactIdle
    /\ ScrapeIdle /\ PipelineIdle

\* matches_resume(job)
Match ==
    /\ r_pc = "start"
    /\ r_match' = matches_resume(r_job)
    /\ r_pc' = "matched"
    /\ UNCHANGED <<r_job, r_kws, not_resume>>

\* the same test with the keyword list in the order r_kws
MatchReordered ==
    /\ r_pc = "matched"
    /\ r_match' = match_loop(resume_text(r_job), r_kws, 1)
    /\ r_pc' = "reordered"
    /\ UNCHANGED <<r_job, r_kws, not_resume>>

NextResume == Match \/ MatchReordered

SpecResume == InitResume /\ [][NextResume]_vars

\* ------------------------------------------------------------ claims: resume
KeywordInField(job) ==
    \E k \in 1..Len(RESUME_KEYWORDS) :
        \E f \in {job.role, job.company, job.description_snippet} :
            Contains(Lower(f), Lower(RESUME_KEYWORDS[k]))

\* C15: matches_resume is true exactly when some configured keyword is a
\* case-insensitive substring of the record's role, company or description
\* snippet, a keyword never matching across the boundary between two
\* fields, and the result is the same for every order of the keyword list.
C15_KeywordWithinField ==
    r_pc \in {"matched", "reordered"} => r_match = KeywordInField(r_job)

\* -------------------------------------------------------------- cookie cache
\* The six calls of load_or_login_save_cookies in main: calls 1..3 with the
\* scan driver, calls 4..6 with driver_apply, each for linkedin, naukri and
\* wellfound in this order, each inside its own try / except Exception: pass.
Sites == <<"linkedin", "naukri", "wellfound">>

NumCalls == 6

call_site(c) == Sites[((c - 1) % Len(Sites)) + 1]

NoCall ==
    [existed |-> FALSE, load |-> "none", login |-> "none", save |-> "none",
     ret |-> "none"]

\* main without the try / except around the call: an exception ends the run
main_resume_uncaught(c, ret) ==
    IF ret = "exc" THEN "crashed"
    ELSE IF c = NumCalls THEN "apply_stage" ELSE "main"

\* where main goes on when call c returned ret or raised (ret = "exc", which
\* except Exception: pass swallows): the next call, or after the last call
\* run_selenium_scans_and_apply
main_resume(c, ret) ==
    IF c = NumCalls THEN "apply_stage" ELSE "main"

\* ---------------------------------------------------- specification: cookies
InitCookies ==
    /\ k_exists \in [{Sites[n] : n \in 1..Len(Sites)} -> BOOLEAN]
    /\ k_call = 1
    /\ k_pc = "main"
    /\ k_hist = [c \in 1..NumCalls |-> NoCall]
    /\ k_writes = <<>>
    /\ DedupeIdle /\ ApplyIdle /\ SalaryIdle /\ ResumeIdle /\ ContactIdle
    /\ ScrapeIdle /\ PipelineIdle

\* main calls load_or_login_save_cookies: os.path.exists(cookie_file)
Enter ==
    /\ k_pc = "main"
    /\ k_call <= NumCalls
    /\ k_hist' = [k_hist EXCEPT ![k_call].existed = k_exists[call_site(k_call)]]
    /\ k_pc' = IF k_exists[call_site(k_call)] THEN "load" ELSE "login"
    /\ UNCHANGED <<k_exists, k_call, k_writes, not_cookies>>

\* a load that goes on to the login procedure even when it succeeded
LoadThenLogin ==
    /\ k_pc = "load"
    /\ \E o \in {"ok", "raise"} :
        /\ k_hist' = [k_hist EXCEPT ![k_call].load = o]
        /\ k_pc' = "login"
        /\ UNCHANGED k_call
    /\ UNCHANGED <<k_exists, k_writes, not_cookies>>

\* a load that writes the cookie file again after it succeeded
LoadRewrites ==
    /\ k_pc = "load"
    /\ \E o \in {"ok", "raise"} :
        IF o = "ok"
        THEN /\ k_hist' = [k_hist EXCEPT ![k_call].load = "ok", ![k_call].ret = "True"]
             /\ k_writes' = Append(k_writes, k_call)
             /\ k_pc' = main_resume(k_call, "True")
             /\ k_call' = k_call + 1
        ELSE /\ k_hist' = [k_hist EXCEPT ![k_call].load = "raise"]
             /\ k_pc' = "login"
             /\ UNCHANGED <<k_call, k_writes>>
    /\ UNCHANGED <<k_exists, not_cookies>>

\* the try block that loads the cached cookies: it returns True, or anything
\* in it raises, the warning is logged and the function goes on to the login
Load ==
    /\ k_pc = "load"
    /\ \E o \in {"ok", "raise"} :
        IF o = "ok"
        THEN /\ k_hist' = [k_hist EXCEPT ![k_call].load = "ok", ![k_call].ret = "True"]
             /\ k_pc' = main_resume(k_call, "True")
             /\ k_call' = k_call + 1
        ELSE /\ k_hist' = [k_hist EXCEPT ![k_call].load = "raise"]
             /\ k_pc' = "login"
             /\ UNCHANGED k_call
    /\ UNCHANGED <<k_exists, k_writes, not_cookies>>

\* ok = login_flow_callable(driver): True, False, or the callable raises
Login ==
    /\ k_pc = "login"
    /\ \E o \in {"True", "False", "raise"} :
        IF o = "True"
        THEN /\ k_hist' = [k_hist EXCEPT ![k_call].login = "True"]
             /\ k_pc' = "save"
             /\ UNCHANGED k_call
        ELSE LET ret == IF o = "raise" THEN "exc" ELSE "False"
             IN /\ k_hist' = [k_hist EXCEPT ![k_call].login = o, ![k_call].ret = ret]
                /\ k_pc' = main_resume(k_call, ret)
                /\ k_call' = k_call + 1
    /\ UNCHANGED <<k_exists, k_writes, not_cookies>>

\* pickle.dump(driver.get_cookies(), open(cookie_file, "wb")) in its try:
\* it writes the file ("ok"), raises before the file is opened ("raise"), or
\* raises after open() created the file ("raise_partial"); return ok
Save ==
    /\ k_pc = "save"
    /\ \E o \in {"ok", "raise", "raise_partial"} :
        /\ k_hist' = [k_hist EXCEPT ![k_call].save = o, ![k_call].ret = "True"]
        /\ k_writes' = IF o = "ok" THEN Append(k_writes, k_call) ELSE k_writes
        /\ k_exists' = IF o = "raise"
                       THEN k_exists
                       ELSE [k_exists EXCEPT ![call_site(k_call)] = TRUE]
    /\ k_pc' = main_resume(k_call, "True")
    /\ k_call' = k_call + 1
    /\ UNCHANGED not_cookies

NextCookies == Enter \/ Load \/ Login \/ Save

SpecCookies == InitCookies /\ [][NextCookies]_vars

\* ----------------------------------------------------------- claims: cookies
Finished(c) == k_hist[c].ret # "none"

\* the calls that wrote the cookie file of site s
WritesOf(s) == { n \in 1..Len(k_writes) : call_site(k_writes[n]) = s }

\* C16: in every finished call the login procedure was invoked exactly when
\* no cookie file existed or loading it raised; a call whose load succeeded
\* returned True without invoking the login and without writing the file.
C16_LoginIffNoUsableCache ==
    \A c \in 1..NumCalls :
        Finished(c) =>
            /\ (k_hist[c].login # "none")
                   <=> (~k_hist[c].existed \/ k_hist[c].load = "raise")
            /\ k_hist[c].load = "ok"
                   => /\ k_hist[c].ret = "True"
                      /\ k_hist[c].login = "none"
                      /\ k_hist[c].save = "none"
                      /\ \A n \in 1..Len(k_writes) : k_writes[n] # c

C16_Witness ==
    /\ k_hist[1].existed /\ k_hist[1].load = "ok" /\ k_hist[1].ret = "True"
    /\ k_hist[2].existed /\ k_hist[2].load = "raise" /\ k_hist[2].login = "True"
    /\ ~k_hist[3].existed /\ k_hist[3].login = "False"
    /\ Finished(3)

\* C17 as stated: within one run the cookie file of each site is written at
\* most once, whatever the six calls meet.
C17_Original ==
    \A n \in 1..Len(Sites) : Cardinality(WritesOf(Sites[n])) <= 1

\* C17: a call writes the cookie file of its site at most once, so a site's
\* file is written at most twice in a run; it is written a second time only
\* by the apply-session call, and only when that call found the file, failed
\* to load it and logged in successfully again.
C17_AtMostOncePerCall ==
    /\ \A n, m \in 1..Len(k_writes) : k_writes[n] = k_writes[m] => n = m
    /\ \A n \in 1..Len(Sites) :
        /\ Cardinality(WritesOf(Sites[n])) <= 2
        /\ Cardinality(WritesOf(Sites[n])) = 2
               => /\ k_hist[n + Len(Sites)].existed
                  /\ k_hist[n + Len(Sites)].load = "raise"
                  /\ k_hist[n + Len(Sites)].login = "True"
                  /\ k_hist[n + Len(Sites)].save = "ok"

C17_Witness ==
    /\ k_writes = <<1, 4>>
    /\ ~k_hist[1].existed
    /\ k_hist[4].existed /\ k_hist[4].load = "raise"
    /\ k_pc = "apply_stage"

\* C18: no failure of the authentication ends the run: while the apply stage
\* is not reached main can always take its next step, and it reaches the
\* apply stage only after all six calls; a call whose login returned False
\* or raised wrote no cookie file and left the site unauthenticated (it did
\* not return True); a failed load or a failed save never leaves the call
\* without a result.
C18_AuthFailuresNotFatal ==
    /\ k_pc \in {"main", "load", "login", "save", "apply_stage"}
    /\ k_pc # "apply_stage" => ENABLED NextCookies
    /\ k_pc = "apply_stage" => \A c \in 1..NumCalls : Finished(c)
    /\ \A c \in 1..NumCalls :
        /\ k_hist[c].login \in {"False", "raise"}
               => /\ k_hist[c].save = "none"
                  /\ \A n \in 1..Len(k_writes) : k_writes[n] # c
                  /\ k_hist[c].ret \in {"False", "exc"}
        /\ k_hist[c].save \in {"raise", "raise_partial"} => k_hist[c].ret = "True"

C18_Witness ==
    /\ k_pc = "apply_stage"
    /\ k_hist[4].load = "raise" /\ k_hist[4].login = "False"
    /\ k_hist[5].login = "raise" /\ k_hist[5].ret = "exc"
    /\ k_hist[6].login = "True" /\ k_hist[6].save = "raise"
    /\ k_writes = <<>>

\* ---------------------------------------------------------- contact discovery
MaxRows == 2

\* the characters \w matches
WordChars ==
    { "a", "b", "c", "d", "e", "f", "g", "h", "i", "j", "k", "l", "m",
      "n", "o", "p", "q", "r", "s", "t", "u", "v", "w", "x", "y", "z",
      "A", "B", "C", "D", "E", "F", "G", "H", "I", "J", "K", "L", "M",
      "N", "O", "P", "Q", "R", "S", "T", "U", "V", "W", "X", "Y", "Z",
      "0", "1", "2", "3", "4", "5", "6", "7", "8", "9", "_" }

IsWord(ch) == ch \in WordChars

\* the characters [\w\.-] matches
IsMailChar(ch) == IsWord(ch) \/ ch \in {".", "-"}

\* re.match(r"^[\w\.-]+@[\w\.-]+\.\w+$", email) after the test for an empty
\* value; $ also matches before a final newline
is_valid_email(email) ==
    IF email = <<>> THEN FALSE
    ELSE LET body == IF email[Len(email)] = "NEWLINE"
                     THEN SubSeq(email, 1, Len(email) - 1)
                     ELSE email
         IN \E a \in 1..Len(body) :
                /\ body[a] = "@"
                /\ a > 1
                /\ \A k \in 1..(a - 1) : IsMailChar(body[k])
                /\ \E d \in (a + 2)..(Len(body) - 1) :
                       /\ body[d] = "."
                       /\ \A k \in (a + 1)..(d - 1) : IsMailChar(body[k])
                       /\ \A k \in (d + 1)..Len(body) : IsWord(body[k])

\* hunter_domain_search without its try / except: a failed request and a
\* payload that raises reach the caller
search_raises_uncaught(key, resp) == key /\ resp.kind \in {"neterror", "malformed"}

\* hunter_domain_search raises to its caller: never, the request, r.json() and
\* the loop over the payload are all inside try / except Exception
search_raises(key, resp) == FALSE

\* a search that stops at the first value that is not a valid address
RECURSIVE valid_prefix(_)
valid_prefix(mails) ==
    IF mails = <<>> \/ ~is_valid_email(Head(mails)) THEN <<>>
    ELSE <<Head(mails)>> \o valid_prefix(Tail(mails))

search_result_stop_at_invalid(resp) ==
    IF resp.kind = "ok200" THEN valid_prefix(resp.mails) ELSE <<>>

\* hunter_domain_search when the key is set and the request got response resp:
\* status 200 with a well-formed payload gives the values that are valid, in
\* order; another status, a failed request and a payload that raises give []
search_result(resp) ==
    IF resp.kind = "ok200" THEN SelectSeq(resp.mails, is_valid_email) ELSE <<>>

\* hunter_domain_search(company): [] without a request when the key is missing
hunter_domain_search(company, key, resp) ==
    IF ~key THEN <<>> ELSE search_result(resp)

bigtech_keywords ==
    { <<"g", "o", "o", "g", "l", "e">>, <<"m", "i", "c", "r", "o", "s", "o", "f", "t">>, <<"a", "m", "a", "z", "o", "n">>, <<"m", "e", "t", "a">>, <<"a", "p", "p", "l", "e">>, <<"n", "e", "t", "f", "l", "i", "x">>,
      <<"n", "v", "i", "d", "i", "a">>, <<"i", "n", "t", "e", "l">>, <<"o", "r", "a", "c", "l", "e">>, <<"a", "d", "o", "b", "e">> }

startup_sources ==
    { <<"y", "c">>, <<"w", "e", "l", "l", "f", "o", "u", "n", "d">>, <<"s", "t", "a", "r", "t", "u", "p">>, <<"r", "e", "m", "o", "t", "e", "o", "k">>, <<"w", "e", "w", "o", "r", "k", "r", "e", "m", "o", "t", "e", "l", "y">>, <<"r", "e", "m", "o", "t", "i", "v", "e">> }

classify_company(job) ==
    IF \E b \in bigtech_keywords : Contains(Lower(job.company), b) THEN "bigtech"
    ELSE IF \E st \in startup_sources : Contains(Lower(job.source), st) THEN "startup"
    ELSE "midlevel"

\* the cold-email template of the company's class, filled with the role, the
\* company and the address (or the placeholder); the atom "cold_<class>" is
\* the fixed wording of the template
generate_cold_email(job, email) ==
    <<"cold_" \o classify_company(job)>> \o job.role \o <<"|">> \o job.company
        \o <<"|">> \o (IF email # <<>> THEN email ELSE <<"y", "o", "u", "r", "_", "e", "m", "a", "i", "l", "_", "h", "e", "r", "e">>)

\* the LinkedIn template of the company's class, filled with role and company
generate_linkedin_message(job) ==
    <<"linkedin_" \o classify_company(job)>> \o job.role \o <<"|">> \o job.company

\* ", ".join(emails)
RECURSIVE JoinComma(_)
JoinComma(emails) ==
    IF emails = <<>> THEN <<>>
    ELSE IF Len(emails) = 1 THEN emails[1]
    ELSE emails[1] \o <<",", " ">> \o JoinComma(Tail(emails))

\* status == "applied" on the lower-cased status text
row_applied_always(row) == TRUE

row_applied(row) == Lower(row.status) = <<"a", "p", "p", "l", "i", "e", "d">>

\* the body of the row loop for one row: the three column entries
row_columns(row, emails) ==
    IF row_applied(row)
    THEN [contacts |-> IF emails # <<>> THEN JoinComma(emails) ELSE <<"N", "/", "A">>,
          cold_email |-> generate_cold_email(row, IF emails # <<>> THEN emails[1] ELSE <<>>),
          linkedin_msg |-> generate_linkedin_message(row)]
    ELSE [contacts |-> <<>>, cold_email |-> <<>>, linkedin_msg |-> <<>>]

\* --------------------------------------------------------- contact inputs
Payloads ==
    { <<>>, <<<<"a", "@", "a", "c", "m", "e", ".", "c", "o", "m">>>>, <<<<"j", "o", "b", "s", ".", "a", "c", "m", "e", ".", "c", "o", "m">>>>,
      <<<<"a", "@", "a", "c", "m", "e", ".", "c", "o", "m">>, <<>>, <<"h", "r", "@", "s", "u", "b", ".", "a", "c", "m", "e", ".", "c", "o">>>> }

Responses ==
    { [kind |-> "ok200", mails |-> p] : p \in Payloads }
      \cup { [kind |-> k, mails |-> <<>>] : k \in {"non200", "neterror", "malformed"} }
      \cup { [kind |-> "non200", mails |-> <<<<"a", "@", "a", "c", "m", "e", ".", "c", "o", "m">>>>] }

NoResponse == [kind |-> "none", mails |-> <<>>]

ContactRows ==
    { [status |-> st, company |-> <<"A", "c", "m", "e">>, role |-> <<"M", "L", " ", "E", "n", "g", "i", "n", "e", "e", "r">>, source |-> <<"W", "e", "l", "l", "f", "o", "u", "n", "d">>] :
        st \in { <<"A", "p", "p", "l", "i", "e", "d">>, <<"P", "e", "n", "d", "i", "n", "g">>, <<"F", "l", "a", "g", "g", "e", "d">>, <<"n", "a", "n">> } }
      \cup { [status |-> <<"a", "p", "p", "l", "i", "e", "d">>, company |-> <<"G", "o", "o", "g", "l", "e">>, role |-> <<"M", "L", " ", "E", "n", "g", "i", "n", "e", "e", "r">>, source |-> <<"B", "i", "g", "T", "e", "c", "h">>] }

\* the second finder is asked with a resolved domain only
Worlds ==
    { [domain |-> <<>>, secondary |-> <<>>],
      [domain |-> <<"a", "c", "m", "e", ".", "c", "o", "m">>, secondary |-> <<>>],
      [domain |-> <<"a", "c", "m", "e", ".", "c", "o", "m">>, secondary |-> <<<<"a", "@", "a", "c", "m", "e", ".", "c", "o", "m">>>>] }

\* ---------------------------------------------------- specification: contact
InitContact ==
    /\ c_rows \in SeqsUpTo(ContactRows, MaxRows)
    /\ c_key \in BOOLEAN
    /\ c_world \in Worlds
    /\ c_input \in BOOLEAN
    /\ c_idx = 1
    /\ c_resp = <<>>
    /\ c_cols = <<>>
    /\ c_calls = <<>>
    /\ c_pc = "read"
    /\ c_file = <<>>
    /\ c_exit = "running"
    /\ c_report = "none"
    /\ DedupeIdle /\ ApplyIdle /\ SalaryIdle /\ ResumeIdle /\ CookiesIdle
    /\ ScrapeIdle /\ PipelineIdle

\* a read that takes an absent file for an empty one and goes on
ReadExcelIgnoresMissing ==
    /\ c_pc = "read"
    /\ c_pc' = "loop"
    /\ UNCHANGED <<c_rows, c_key, c_world, c_idx, c_resp, c_cols, c_calls, c_file,
                   c_input, c_exit, c_report, not_contact>>

\* df = pd.read_excel(EXCEL_FILE): raises when the file is absent, nothing in
\* Contact.py catches it and the interpreter exits with status 1
ReadExcel ==
    /\ c_pc = "read"
    /\ c_pc' = IF c_input THEN "loop" ELSE "crashed"
    /\ c_exit' = IF c_input THEN c_exit ELSE "1"
    /\ UNCHANGED <<c_rows, c_key, c_world, c_idx, c_resp, c_cols, c_calls, c_file,
                   c_input, c_report, not_contact>>

\* one pass of the row loop of main
ContactRow ==
    /\ c_pc = "loop"
    /\ c_idx <= Len(c_rows)
    /\ LET row == c_rows[c_idx]
       IN \E resp \in IF row_applied(row) /\ c_key THEN Responses ELSE {NoResponse} :
            IF row_applied(row) /\ search_raises(c_key, resp)
            THEN /\ c_pc' = "crashed"
                 /\ c_exit' = "1"
                 /\ c_resp' = Append(c_resp, resp)
                 /\ UNCHANGED <<c_cols, c_calls, c_idx>>
            ELSE LET emails == IF row_applied(row)
                               THEN hunter_domain_search(row.company, c_key, resp)
                               ELSE <<>>
                 IN /\ c_resp' = Append(c_resp, resp)
                    /\ c_cols' = Append(c_cols, row_columns(row, emails))
                    /\ c_calls' = IF row_applied(row)
                                  THEN Append(c_calls,
                                         [row |-> c_idx, provider |-> "hunter",
                                          company |-> row.company,
                                          domain_hint |-> <<>>,
                                          requested |-> c_key])
                                  ELSE c_calls
                    /\ c_idx' = c_idx + 1
                    /\ UNCHANGED <<c_pc, c_exit>>
    /\ UNCHANGED <<c_rows, c_key, c_world, c_file, c_input, c_report, not_contact>>

\* the loop is over: the three columns are added to the frame
LoopEnd ==
    /\ c_pc = "loop"
    /\ c_idx > Len(c_rows)
    /\ c_pc' = "export"
    /\ UNCHANGED <<c_rows, c_key, c_world, c_idx, c_resp, c_cols, c_calls, c_file,
                   c_input, c_exit, c_report, not_contact>>

\* df.to_excel(OUTPUT_FILE, index=False), and main returns
ContactExport ==
    /\ c_pc = "export"
    /\ c_file' = [k \in 1..Len(c_rows) |->
                    [row |-> c_rows[k],
                     contacts |-> c_cols[k].contacts,
                     cold_email |-> c_cols[k].cold_email,
                     linkedin_msg |-> c_cols[k].linkedin_msg]]
    /\ c_pc' = "done"
    /\ c_exit' = "0"
    /\ UNCHANGED <<c_rows, c_key, c_world, c_idx, c_resp, c_cols, c_calls,
                   c_input, c_report, not_contact>>

\* run_script of src/main.py after the subprocess ended
RunScript ==
    /\ c_pc \in {"done", "crashed"}
    /\ c_report = "none"
    /\ c_report' = IF c_exit # "0" THEN "failed" ELSE "finished successfully"
    /\ UNCHANGED <<c_rows, c_key, c_world, c_idx, c_resp, c_cols, c_calls, c_pc,
                   c_file, c_input, c_exit, not_contact>>

NextContact == ReadExcel \/ ContactRow \/ LoopEnd \/ ContactExport \/ RunScript

SpecContact == InitContact /\ [][NextContact]_vars

\* ----------------------------------------------------------- claims: contact
StatusIsApplied(row) == Lower(row.status) = <<"a", "p", "p", "l", "i", "e", "d">>

\* C19: contact discovery is performed only for rows whose status is Applied
\* (in any letter case): for a row with another status no provider call is
\* made and the recruiter contacts, the cold-email draft and the LinkedIn
\* message are empty, while an Applied row gets one provider call and
\* non-empty entries; every input row appears, in order, in the export.
C19_OnlyAppliedRowsEnriched ==
    /\ \A n \in 1..Len(c_calls) : StatusIsApplied(c_rows[c_calls[n].row])
    /\ \A k \in 1..Len(c_cols) :
        IF StatusIsApplied(c_rows[k])
        THEN /\ Cardinality({ n \in 1..Len(c_calls) : c_calls[n].row = k }) = 1
             /\ c_cols[k].contacts # <<>>
             /\ c_cols[k].cold_email # <<>>
             /\ c_cols[k].linkedin_msg # <<>>
        ELSE /\ c_cols[k].contacts = <<>>
             /\ c_cols[k].cold_email = <<>>
             /\ c_cols[k].linkedin_msg = <<>>
    /\ c_pc = "done"
           => /\ Len(c_file) = Len(c_rows)
              /\ \A k \in 1..Len(c_rows) : c_file[k].row = c_rows[k]

C19_Witness ==
    /\ c_pc = "done"
    /\ Len(c_file) = 2
    /\ c_rows[1].status = <<"P", "e", "n", "d", "i", "n", "g">> /\ c_file[1].contacts = <<>>
    /\ c_rows[2].status = <<"A", "p", "p", "l", "i", "e", "d">> /\ c_file[2].contacts = <<"a", "@", "a", "c", "m", "e", ".", "c", "o", "m">>
    /\ Len(c_calls) = 1

\* the contacts the fallback chain would give for a row whose primary search
\* found no valid address
ChainResult(world) ==
    IF world.secondary # <<>> THEN JoinComma(world.secondary)
    ELSE IF world.domain # <<>> THEN world.domain
    ELSE <<>>

\* C20: for an Applied row whose primary email finder returned no validated
\* email the domain is resolved and the secondary email finder is queried
\* with it, and the contacts are the secondary finder's emails if any, else
\* the resolved domain if any, else empty (written N/A).
C20_FallbackChain ==
    \A k \in 1..Len(c_cols) :
        (/\ StatusIsApplied(c_rows[k])
         /\ hunter_domain_search(c_rows[k].company, c_key, c_resp[k]) = <<>>)
        => /\ c_world.domain # <<>>
                => \E n \in 1..Len(c_calls) :
                       /\ c_calls[n].row = k
                       /\ c_calls[n].provider = "secondary"
                       /\ c_calls[n].domain_hint = c_world.domain
           /\ c_cols[k].contacts =
                IF ChainResult(c_world) = <<>> THEN <<"N", "/", "A">> ELSE ChainResult(c_world)

\* the request for row k failed, or was not made for want of a key
ProviderFailed(k) ==
    \/ ~c_key
    \/ c_resp[k].kind \in {"non200", "neterror", "malformed"}

\* C21: a call of the contact provider never raises to its caller: after a
\* network failure, a non-200 response, a malformed payload or with the API
\* key missing the row gets the empty result (written N/A), the run is not
\* ended by it and the loop goes on to the remaining rows.
C21_ProviderNeverRaises ==
    /\ Len(c_cols) = Len(c_resp)
    /\ \A k \in 1..Len(c_resp) :
        (StatusIsApplied(c_rows[k]) /\ ProviderFailed(k))
            => c_cols[k].contacts = <<"N", "/", "A">>
    /\ c_pc = "crashed" => Len(c_resp) = 0
    /\ c_pc = "loop" => ENABLED (ContactRow \/ LoopEnd)
    /\ c_pc \in {"export", "done"} => Len(c_cols) = Len(c_rows)

C21_Witness ==
    /\ c_pc = "done"
    /\ c_key
    /\ Len(c_rows) = 2
    /\ StatusIsApplied(c_rows[1]) /\ c_resp[1].kind = "neterror"
    /\ c_file[1].contacts = <<"N", "/", "A">>
    /\ StatusIsApplied(c_rows[2]) /\ c_resp[2].kind = "ok200"
    /\ c_file[2].contacts = <<"a", "@", "a", "c", "m", "e", ".", "c", "o", "m">>

\* the shape local@domain.tld: one "@", a non-empty local part, and after the
\* "@" a non-empty domain, the last "." and a non-empty tld of word characters
HasShape(m) ==
    LET ats == { q \in 1..Len(m) : m[q] = "@" }
    IN /\ Cardinality(ats) = 1
       /\ LET a == CHOOSE q \in ats : TRUE
              dots == { q \in (a + 1)..Len(m) : m[q] = "." }
          IN /\ a > 1
             /\ \A q \in 1..(a - 1) : IsMailChar(m[q])
             /\ dots # {}
             /\ LET d == CHOOSE q \in dots : \A r \in dots : r <= q
                IN /\ d > a + 1
                   /\ d < Len(m)
                   /\ \A q \in (a + 1)..(d - 1) : IsMailChar(m[q])
                   /\ \A q \in (d + 1)..Len(m) : IsWord(m[q])

\* C22: the contacts of a row whose request was answered with status 200 are
\* exactly the returned addresses that have the shape local@domain.tld, in
\* the order returned: a value without the shape, or an empty one, is dropped
\* and the valid ones beside it are kept.
C22_ExactlyTheValidEmails ==
    \A k \in 1..Len(c_cols) :
        (StatusIsApplied(c_rows[k]) /\ c_key /\ c_resp[k].kind = "ok200")
            => LET shaped == SelectSeq(c_resp[k].mails, HasShape)
               IN c_cols[k].contacts =
                      IF shaped = <<>> THEN <<"N", "/", "A">> ELSE JoinComma(shaped)

C22_Witness ==
    /\ Len(c_cols) >= 1
    /\ StatusIsApplied(c_rows[1])
    /\ c_resp[1].kind = "ok200"
    /\ Len(c_resp[1].mails) = 3
    /\ c_resp[1].mails[2] = <<>>
    /\ c_cols[1].contacts = <<"a", "@", "a", "c", "m", "e", ".", "c", "o", "m", ",", " ", "h", "r", "@", "s", "u", "b", ".", "a", "c", "m", "e", ".", "c", "o">>

ClaimedLow(parts) ==
    IF parts.ranged THEN parts.amount
    ELSE IF parts.lead # 0 THEN parts.lead
    ELSE parts.amount

\* what divides the number: 12 with an annual keyword and no monthly one, 12
\* for a large INR or USD number, else 1
DivisorOf(parts, low) ==
    IF parts.period = "annual" THEN 12
    ELSE IF parts.currency = "INR" /\ low > 200000 THEN 12
    ELSE IF parts.currency = "USD" /\ low > 100000 THEN 12
    ELSE 1

\* C28: when the text, after the thousands separators are removed and the
\* long dashes are made hyphens, holds a range X-Y the amount parsed is the
\* low end X of the range, also when another number stands before the range;
\* without a range it is the first number of the text; a text with no number
\* gives no parse.
C28_LowOfFirstRange ==
    s_pc # "start"
    => /\ s_job.parts.amount # 0
          => /\ s_parsed # NoSalary
             /\ MonthlyIs(s_parsed, ClaimedLow(s_job.parts),
                          DivisorOf(s_job.parts, ClaimedLow(s_job.parts)))
       /\ NoNumber(s_job.salary) => s_parsed = NoSalary
       /\ s_job.salary = <<"3", " ", "p", "o", "s", "t", "s", ",", " ", "INR_SIGN", "4", ",", "0", "0", "0", " ", "EN_DASH", " ", "8", ",", "0", "0", "0", " ", "p", "e", "r", " ", "m", "o", "n", "t", "h">>
          => s_parsed = [kind |-> "salary", monthly |-> [num |-> 4000, den |-> 1],
                         currency |-> "INR", unit |-> "monthly"]

C28_Witness ==
    /\ s_pc = "parsed"
    /\ s_job.salary = <<"3", " ", "p", "o", "s", "t", "s", ",", " ", "INR_SIGN", "4", ",", "0", "0", "0", " ", "EN_DASH", " ", "8", ",", "0", "0", "0", " ", "p", "e", "r", " ", "m", "o", "n", "t", "h">>
    /\ s_job.parts.lead = 3
    /\ MonthlyIs(s_parsed, 4000, 1)

\* ------------------------------------------------- claims: apply stage, again
\* C25: a record whose status is Applied has a non-empty link: a record with
\* an empty link is never dispatched to a strategy, no driver operation is
\* performed for it and it is never Applied.
C25_AppliedHasLink ==
    \A r \in 1..Len(shortlisted) :
        /\ status[r] = "Applied" => Strip(shortlisted[r].link) # <<>>
        /\ shortlisted[r].link = <<>>
              => status[r] = "Pending" /\ r \notin invoked /\ r \notin touched

\* a record with the empty link went through the loop and stayed Pending, the
\* record after it was applied to
C25_Witness ==
    /\ pc = "done"
    /\ Len(to_apply) = 2
    /\ shortlisted[1].link = <<>> /\ status[1] = "Pending"
    /\ dispatched = <<1, 2>>
    /\ status[2] = "Applied"

\* C29: the apply stage is serialized: a record enters the loop body only
\* when no strategy is running, the records enter it in shortlist order, and
\* every driver operation is performed for the record that entered last, so
\* all operations for one record are over before the first operation for
\* the next.
C29_Serialized ==
    [][/\ dispatched' # dispatched
          => /\ pc = "loop"
             /\ \E r \in 1..Len(shortlisted) :
                   /\ dispatched' = Append(dispatched, r)
                   /\ \A n \in 1..Len(dispatched) : dispatched[n] < r
       /\ pc = "strategy"
          => /\ dispatched' = dispatched
             /\ LET r == dispatched[Len(dispatched)]
                IN /\ touched' = touched \cup {r}
                   /\ \A t \in touched : t <= r]_vars

\* three records went through three strategies one after the other
C29_Witness ==
    /\ pc = "done"
    /\ dispatched = <<1, 2, 3>>
    /\ touched = {1, 2, 3}
    /\ status = <<"Applied", "Applied", "Flagged">>

\* each required operation of the attempt was made after the one before it
\* had succeeded
InOrder(a) ==
    /\ a.apply_find # "none" => a.nav = "ok"
    /\ a.apply_click # "none" => a.apply_find = "found"
    /\ a.submit_find # "none" => a.apply_click = "ok"
    /\ a.submit_click # "none" => a.submit_find = "found"

\* C30: in every strategy a status becomes Applied only in the step in which
\* the click on the located submit affordance returned, after the navigation
\* returned and the click on the located apply affordance returned, in this
\* order; a resume upload or a phone field that fails changes no status and
\* the strategy goes on to the submit lookup as it does when they succeed.
C30_AppliedAfterSubmit ==
    [][/\ \A r \in 1..Len(status) :
            (status[r] # "Applied" /\ status'[r] = "Applied")
            => /\ pc = "strategy" /\ step = "submit_click"
               /\ r = to_apply[i]
               /\ att.nav = "ok"
               /\ att.apply_find = "found"
               /\ att.apply_click = "ok"
               /\ att.submit_find = "found"
               /\ att.submit_click = "none"
               /\ att'.submit_click = "ok"
       /\ InOrder(att')
       /\ (pc = "strategy" /\ step \in {"upload", "tel"})
            => /\ status' = status
               /\ pc' = "strategy"
               /\ step' = IF site = "linkedin" /\ step = "upload"
                          THEN "tel" ELSE "submit_find"]_vars

\* a record was applied to although the resume upload failed
C30_Witness ==
    /\ pc = "ret"
    /\ site = "naukri"
    /\ att.opt_failed
    /\ att.submit_click = "ok"
    /\ status[to_apply[i]] = "Applied"

\* ------------------------------------------------------------ provider registry
\* the most places at which the sites fail during one run
MaxFailures == 1

\* the number of listings on a page a site returns
CardsPerPage == 2

\* the keys of config in the order in which run_scrapers tests them
Providers ==
    <<"yc", "startup", "wellfound", "indeed", "remoteok", "weworkremotely",
      "remotive", "bigtech">>

BIG_TECH_SITES == <<"google", "microsoft", "amazon", "meta">>

\* "indeed_pages" of main's config
indeed_pages == 1

\* the requests a provider makes: one per careers site, one per result page,
\* or one
Requests(p) ==
    IF p = "bigtech" THEN 1..Len(BIG_TECH_SITES)
    ELSE IF p = "indeed" THEN 1..indeed_pages
    ELSE {1}

\* the JobPost a provider builds from listing c of the page of request q
ScrapedJob(p, q, c) == [source |-> p, req |-> q, card |-> c]

\* scrape_bigtech_generic has no try around the handling of one listing
inner_try(p) == p # "bigtech"

\* the place of a failure: card 0 is the request itself (requests.get,
\* BeautifulSoup, select), card c >= 1 the handling of listing c
FailurePoints ==
    { [provider |-> Providers[n], req |-> q, card |-> c] :
        n \in 1..Len(Providers), q \in 1..Len(BIG_TECH_SITES), c \in 0..CardsPerPage }

RECURSIVE FailSets(_)
FailSets(n) ==
    IF n = 0 THEN {{}}
    ELSE LET less == FailSets(n - 1)
         IN less \cup { S \cup {f} : S \in less,
                          f \in { x \in FailurePoints :
                                    x.req \in Requests(x.provider) } }

Fails(p, q, c, fails) == [provider |-> p, req |-> q, card |-> c] \in fails

\* the listings c..CardsPerPage of one page, handled in order
RECURSIVE cards_from(_, _, _, _)
cards_from(p, q, c, fails) ==
    IF c > CardsPerPage THEN <<>>
    ELSE IF Fails(p, q, c, fails)
         THEN IF inner_try(p) THEN cards_from(p, q, c + 1, fails) ELSE <<>>
         ELSE <<ScrapedJob(p, q, c)>> \o cards_from(p, q, c + 1, fails)

\* what one request adds to jobs: nothing when the request raised (the except
\* around it logs a warning); else the listings handled without an exception,
\* where a listing that raises is skipped (except Exception: continue) and in
\* scrape_bigtech_generic ends the page
page_jobs(p, q, fails) ==
    IF Fails(p, q, 0, fails) THEN <<>> ELSE cards_from(p, q, 1, fails)

\* the requests q.. of a provider, in order
RECURSIVE requests_from(_, _, _)
requests_from(p, q, fails) ==
    IF q \notin Requests(p) THEN <<>>
    ELSE page_jobs(p, q, fails) \o requests_from(p, q + 1, fails)

\* scrape_ycombinator, ..., scrape_bigtech_generic: the list jobs returned
scrape(p, fails) == requests_from(p, 1, fails)

\* a provider that lets the exception of a failed request out
scrape_raises_on_request(p, fails) == \E q \in Requests(p) : Fails(p, q, 0, fails)

\* a provider raises to run_scrapers: never, every request and every listing
\* is handled inside a try / except Exception
scrape_raises(p, fails) == FALSE

\* the configurations: every key true, as main passes them, one key false,
\* most keys false
ScrapeConfigs ==
    { { Providers[n] : n \in 1..Len(Providers) },
      { Providers[n] : n \in 1..Len(Providers) } \ {"wellfound"},
      {"yc", "remoteok", "bigtech"} }

\* ---------------------------------------------------- specification: scrape
InitScrape ==
    /\ g_config \in ScrapeConfigs
    /\ g_fails \in FailSets(MaxFailures)
    /\ g_k = 1
    /\ g_jobs = <<>>
    /\ g_calls = <<>>
    /\ g_pc = "run"
    /\ DedupeIdle /\ ApplyIdle /\ SalaryIdle /\ ResumeIdle /\ CookiesIdle
    /\ ContactIdle /\ PipelineIdle

\* run_scrapers: one if config.get(key, True): all_jobs.extend(scrape_...())
ScrapeNext ==
    /\ g_pc = "run"
    /\ g_k <= Len(Providers)
    /\ LET p == Providers[g_k]
       IN IF p \notin g_config
          THEN /\ g_k' = g_k + 1
               /\ UNCHANGED <<g_jobs, g_calls, g_pc>>
          ELSE IF scrape_raises(p, g_fails)
          THEN /\ g_pc' = "raised"
               /\ g_calls' = Append(g_calls, [provider |-> p, jobs |-> <<>>])
               /\ UNCHANGED <<g_jobs, g_k>>
          ELSE /\ g_jobs' = g_jobs \o scrape(p, g_fails)
               /\ g_calls' = Append(g_calls, [provider |-> p,
                                              jobs |-> scrape(p, g_fails)])
               /\ g_k' = g_k + 1
               /\ UNCHANGED g_pc
    /\ UNCHANGED <<g_config, g_fails, not_scrape>>

\* run_scrapers: return all_jobs
ScrapeReturn ==
    /\ g_pc = "run"
    /\ g_k > Len(Providers)
    /\ g_pc' = "returned"
    /\ UNCHANGED <<g_config, g_fails, g_k, g_jobs, g_calls, not_scrape>>

NextScrape == ScrapeNext \/ ScrapeReturn

SpecScrape == InitScrape /\ [][NextScrape]_vars

\* ------------------------------------------------------------ claims: scrape
\* the enabled providers among the first n, in the order of invocation
RECURSIVE EnabledUpTo(_)
EnabledUpTo(n) ==
    IF n = 0 THEN <<>>
    ELSE IF Providers[n] \in g_config
         THEN Append(EnabledUpTo(n - 1), Providers[n])
         ELSE EnabledUpTo(n - 1)

RECURSIVE ConcatJobs(_)
ConcatJobs(calls) ==
    IF calls = <<>> THEN <<>>
    ELSE ConcatJobs(SubSeq(calls, 1, Len(calls) - 1)) \o calls[Len(calls)].jobs

\* every enabled provider so far was called, in the fixed order, nothing was
\* raised and all_jobs is the concatenation of what the calls returned
Isolated ==
    /\ g_pc # "raised"
    /\ g_pc \in {"run", "returned"}
          => /\ [n \in 1..Len(g_calls) |-> g_calls[n].provider] = EnabledUpTo(g_k - 1)
             /\ g_jobs = ConcatJobs(g_calls)
    /\ g_pc = "returned" => g_k = Len(Providers) + 1

\* C23 as stated: a failure inside a provider is caught at its boundary, the
\* provider contributes the empty sequence, every other enabled provider is
\* still called and run_scrapers returns the concatenation of the outputs in
\* the order of invocation without raising.
C23_Original ==
    /\ Isolated
    /\ \A n \in 1..Len(g_calls) :
          (\E f \in g_fails : f.provider = g_calls[n].provider)
              => g_calls[n].jobs = <<>>

\* the listings of provider p that no failure touches: the request returned,
\* the listing did not raise and, where one raising listing ends the page,
\* no listing before it raised
Kept(p) ==
    { j \in { ScrapedJob(p, q, c) : q \in Requests(p), c \in 1..CardsPerPage } :
        /\ ~Fails(p, j.req, 0, g_fails)
        /\ ~Fails(p, j.req, j.card, g_fails)
        /\ ~inner_try(p) => \A b \in 1..(j.card - 1) : ~Fails(p, j.req, b, g_fails) }

\* C23: a failure inside a provider is caught inside that provider and only
\* what it touches is lost: a request that fails contributes nothing, a
\* listing whose handling raises is skipped (on a careers site it ends that
\* site's page), and the provider returns the other listings in page order,
\* the empty sequence when none is left; every other enabled provider is
\* still called and run_scrapers returns the concatenation of the outputs in
\* the order of invocation without raising.
C23_ProviderIsolation ==
    /\ Isolated
    /\ \A n \in 1..Len(g_calls) :
          LET js == g_calls[n].jobs
          IN /\ { js[m] : m \in 1..Len(js) } = Kept(g_calls[n].provider)
             /\ \A a, b \in 1..Len(js) :
                   a < b => \/ js[a].req < js[b].req
                            \/ js[a].req = js[b].req /\ js[a].card < js[b].card

\* the request to the second careers site failed: the provider returned the
\* listings of the three other sites and all eight providers were called
C23_Witness ==
    /\ g_pc = "returned"
    /\ g_fails = {[provider |-> "bigtech", req |-> 2, card |-> 0]}
    /\ Len(g_calls) = 8
    /\ g_calls[8].provider = "bigtech"
    /\ Len(g_calls[8].jobs) = 3 * CardsPerPage
    /\ Len(g_jobs) = 10 * CardsPerPage

\* ------------------------------------------------------------------- pipeline
\* main of Job_applier.py from the deduplication to the two exports.  The
\* value None of a field is the one-atom sequence None.  The fields fits and
\* paid of an input record tell how the record was chosen: with or without a
\* resume keyword, with a salary that meets the cutoff or not.
None == <<"<None>">>

PipeJob(company, role, location, link, source, salary, fits, paid) ==
    [company |-> company, role |-> role, location |-> location, link |-> link,
     source |-> source, salary |-> salary, remote |-> <<"U", "n", "k", "n", "o", "w", "n">>,
     description_snippet |-> role, status |-> "Pending",
     fits |-> fits, paid |-> paid]

\* JobPost.dedupe_key raises AttributeError: None has no strip()
dedupe_key_raises(j) == None \in {j.company, j.role, j.location, j.link}

\* normalize_text: (s or "").strip()
normalize_text(s) == IF s = None THEN <<>> ELSE Strip(s)

\* the four assignments at the head of the filter loop
normalized(j) ==
    [j EXCEPT !.role = normalize_text(j.role),
              !.company = normalize_text(j.company),
              !.location = normalize_text(j.location),
              !.description_snippet = normalize_text(j.description_snippet)]

\* a filter that leaves the salary cutoff out
passes_resume_filter_only(j) == matches_resume(j)

\* the test of the filter loop
passes_filters(j) == matches_resume(j) /\ meets_cutoff(j)

\* the filter loop of main: the records that pass, normalized, in order
filter_loop(jobs) == SelectSeq([k \in 1..Len(jobs) |-> normalized(jobs[k])],
                               passes_filters)

\* export_jobs: one row per record, the nine columns of the frame
export_jobs(jobs) ==
    [k \in 1..Len(jobs) |->
        [company |-> jobs[k].company, role |-> jobs[k].role,
         location |-> jobs[k].location, remote |-> jobs[k].remote,
         salary |-> jobs[k].salary, link |-> jobs[k].link,
         source |-> jobs[k].source, status |-> jobs[k].status,
         description_snippet |-> jobs[k].description_snippet]]

\* what run_selenium_scans_and_apply leaves in the status of one record when
\* every strategy it runs ends with outcome o: a link that is None raises in
\* job.link.lower() and the loop's except writes Flagged, a link of no known
\* site gives Pending
apply_status(j, o) ==
    IF j.link = None THEN "Flagged"
    ELSE IF site_of(j.link) = "none" THEN "Pending"
    ELSE o

\* the links of driver.get(job.link), the first statement of each strategy,
\* for the records of shortlisted[:c] in order: one per record whose link
\* names a known site
navigations(short, c) ==
    LET to == SubSeq(short, 1, Min(Len(short), c))
        sited == SelectSeq(to, LAMBDA j : j.link # None /\ site_of(j.link) # "none")
    IN [k \in 1..Len(sited) |-> sited[k].link]

\* ------------------------------------------------------------ pipeline inputs
PipeJobs ==
    { PipeJob(<<"A", "c", "m", "e">>, <<"M", "a", "c", "h", "i", "n", "e", " ", "L", "e", "a", "r", "n", "i", "n", "g", " ", "E", "n", "g", "i", "n", "e", "e", "r">>, <<"I", "n", "d", "i", "a">>, L_wellfound,
              <<"W", "e", "l", "l", "f", "o", "u", "n", "d">>, <<"N", "/", "A">>, TRUE, TRUE),
      PipeJob(<<" ", "a", "c", "m", "e", " ">>, <<"m", "a", "c", "h", "i", "n", "e", " ", "l", "e", "a", "r", "n", "i", "n", "g", " ", "e", "n", "g", "i", "n", "e", "e", "r">>, <<"i", "n", "d", "i", "a">>, L_wellfound,
              <<"I", "n", "d", "e", "e", "d">>, <<"N", "/", "A">>, TRUE, TRUE),
      PipeJob(<<"A", "c", "m", "e", " ", "I", "n", "c">>, <<"M", "a", "c", "h", "i", "n", "e", " ", "L", "e", "a", "r", "n", "i", "n", "g", " ", "E", "n", "g", "i", "n", "e", "e", "r">>, <<"N", "/", "A">>, L_wellfound,
              <<"Y", "C", "o", "m", "b", "i", "n", "a", "t", "o", "r">>, <<"N", "/", "A">>, TRUE, TRUE),
      PipeJob(<<"B", "i", "s", "t", "r", "o">>, <<"C", "h", "e", "f">>, <<"I", "n", "d", "i", "a">>, L_other,
              <<"R", "e", "m", "o", "t", "e", "O", "K">>, <<"N", "/", "A">>, FALSE, TRUE),
      PipeJob(<<"B", "e", "t", "a">>, <<" ", "P", "y", "t", "h", "o", "n", " ", "D", "e", "v", "e", "l", "o", "p", "e", "r", " ">>, <<"I", "n", "d", "i", "a">>, L_naukri,
              <<"N", "a", "u", "k", "r", "i">>, <<"INR_SIGN", "4", "0", "0", "0", " ", "p", "e", "r", " ", "m", "o", "n", "t", "h">>, TRUE, FALSE),
      PipeJob(<<"R", "e", "m", "o", "t", "e", "O", "K">>, <<"P", "y", "t", "h", "o", "n", " ", "D", "e", "v", "e", "l", "o", "p", "e", "r">>, <<"R", "e", "m", "o", "t", "e">>, None,
              <<"R", "e", "m", "o", "t", "e", "O", "K">>, <<"N", "/", "A">>, TRUE, TRUE),
      PipeJob(<<"G", "a", "m", "m", "a">>, <<"R", "o", "b", "o", "t", "i", "c", "s", " ", "E", "n", "g", "i", "n", "e", "e", "r">>, <<"R", "e", "m", "o", "t", "e">>, L_linkedin,
              <<"L", "i", "n", "k", "e", "d", "I", "n">>, <<"N", "/", "A">>, TRUE, TRUE) }

\* -------------------------------------------------- specification: pipeline
\* main after run_scrapers and the two Selenium scans: the session the scans
\* used is open, the finally of the scan block is `pass`
InitPipeline ==
    /\ p_all \in SeqsUpTo(PipeJobs, MaxJobs)
    /\ p_cap \in 0..MaxCap
    /\ p_dedup = <<>>
    /\ p_short = <<>>
    /\ p_files = <<>>
    /\ p_nav = <<>>
    /\ p_sessions = <<[name |-> "scan", state |-> "open"]>>
    /\ p_pc = "collected"
    /\ DedupeIdle /\ ApplyIdle /\ SalaryIdle /\ ResumeIdle /\ CookiesIdle
    /\ ContactIdle /\ ScrapeIdle

\* all_jobs = dedupe_jobs(all_jobs); an exception of dedupe_key ends main
PipeDedupe ==
    /\ p_pc = "collected"
    /\ IF \E k \in 1..Len(p_all) : dedupe_key_raises(p_all[k])
       THEN p_pc' = "crashed" /\ UNCHANGED p_dedup
       ELSE p_pc' = "deduped" /\ p_dedup' = dedupe_jobs(p_all)
    /\ UNCHANGED <<p_all, p_cap, p_short, p_files, p_nav, p_sessions, not_pipeline>>

\* export_jobs(all_jobs, "jobs_raw.xlsx")
PipeRawExport ==
    /\ p_pc = "deduped"
    /\ p_files' = Append(p_files, [name |-> "jobs_raw.xlsx",
                                   rows |-> export_jobs(p_dedup)])
    /\ p_pc' = "raw"
    /\ UNCHANGED <<p_all, p_cap, p_dedup, p_short, p_nav, p_sessions, not_pipeline>>

\* the filter loop: every record of all_jobs is normalized in place, those
\* that pass both filters are appended to shortlisted
PipeFilter ==
    /\ p_pc = "raw"
    /\ p_dedup' = [k \in 1..Len(p_dedup) |-> normalized(p_dedup[k])]
    /\ p_short' = filter_loop(p_dedup)
    /\ p_pc' = "filtered"
    /\ UNCHANGED <<p_all, p_cap, p_files, p_nav, p_sessions, not_pipeline>>

\* the cap, the skipped records marked Pending, the session driver_apply made,
\* the apply loop over to_apply, and driver_apply.quit() in the finally
PipeApply ==
    /\ p_pc = "filtered"
    /\ \E o \in Statuses :
          p_short' = [k \in 1..Len(p_short) |->
                        [p_short[k] EXCEPT !.status =
                            IF k > p_cap THEN "Pending"
                            ELSE apply_status(p_short[k], o)]]
    /\ p_nav' = navigations(p_short, p_cap)
    /\ p_sessions' = Append(p_sessions, [name |-> "apply", state |-> "closed"])
    /\ p_pc' = "applied"
    /\ UNCHANGED <<p_all, p_cap, p_dedup, p_files, not_pipeline>>

\* export_jobs(shortlisted, "jobs_with_status.xlsx")
PipeStatusExport ==
    /\ p_pc = "applied"
    /\ p_files' = Append(p_files, [name |-> "jobs_with_status.xlsx",
                                   rows |-> export_jobs(p_short)])
    /\ p_pc' = "done"
    /\ UNCHANGED <<p_all, p_cap, p_dedup, p_short, p_nav, p_sessions, not_pipeline>>

NextPipeline ==
    PipeDedupe \/ PipeRawExport \/ PipeFilter \/ PipeApply \/ PipeStatusExport

SpecPipeline == InitPipeline /\ [][NextPipeline]_vars

\* ---------------------------------------------------------- claims: pipeline
Written(name) == \E n \in 1..Len(p_files) : p_files[n].name = name

RowsOf(name) == p_files[CHOOSE n \in 1..Len(p_files) : p_files[n].name = name].rows

\* the rows are the records of jobs, in order (link and source name a record)
SameRecords(rows, jobs) ==
    /\ Len(rows) = Len(jobs)
    /\ \A k \in 1..Len(rows) :
          rows[k].link = jobs[k].link /\ rows[k].source = jobs[k].source

\* C24: partial data never fails the run: with a record that has a missing
\* (None) textual field, the link included, among the collected ones, no
\* exception ends the pipeline, and where the field is normalized it is the
\* empty string.
C24_PartialDataNeverFails ==
    /\ p_pc # "crashed"
    /\ \A k \in 1..Len(p_short) :
          None \notin {p_short[k].company, p_short[k].role, p_short[k].location}

\* C26: records are never deleted: the raw export holds every deduplicated
\* record, in order, shortlisted or not; the status export holds exactly the
\* records that pass both the resume filter and the salary cutoff, in their
\* deduplicated order, those beyond the cap included (with status Pending).
C26_NothingDeleted ==
    /\ p_pc \in {"raw", "filtered", "applied", "done"}
          => /\ Written("jobs_raw.xlsx")
             /\ SameRecords(RowsOf("jobs_raw.xlsx"), p_dedup)
    /\ p_pc = "done"
          => /\ Written("jobs_with_status.xlsx")
             /\ SameRecords(RowsOf("jobs_with_status.xlsx"),
                            SelectSeq(p_dedup, LAMBDA j : j.fits /\ j.paid))
             /\ \A k \in 1..Len(RowsOf("jobs_with_status.xlsx")) :
                   /\ RowsOf("jobs_with_status.xlsx")[k].status \in Statuses
                   /\ k > p_cap
                        => RowsOf("jobs_with_status.xlsx")[k].status = "Pending"

\* a record without a resume keyword, then two that pass both filters, cap 1:
\* three rows in the raw export, two in the status export, the second beyond
\* the cap
C26_Witness ==
    /\ p_pc = "done"
    /\ p_cap = 1
    /\ Len(p_all) = 3
    /\ ~p_all[1].fits
    /\ Len(RowsOf("jobs_raw.xlsx")) = 3
    /\ Len(RowsOf("jobs_with_status.xlsx")) = 2
    /\ RowsOf("jobs_with_status.xlsx")[1].status = "Applied"
    /\ RowsOf("jobs_with_status.xlsx")[2].status = "Pending"
    /\ RowsOf("jobs_with_status.xlsx")[2].source = <<"L", "i", "n", "k", "e", "d", "I", "n">>

\* ------------------------------------------------ claims: monthly keyword
\* C32: an explicit monthly keyword is honoured: for a text with a monthly
\* keyword the amount is returned unchanged as the monthly figure, with
\* period monthly, in every currency and at every magnitude; an amount
\* detected as yearly is divided by 12 once.
C32_MonthlyKeywordHonoured ==
    (s_pc # "start" /\ s_job.parts.composed)
    => /\ s_job.parts.period \in {"monthly", "both"}
          => /\ s_parsed.unit = "monthly"
             /\ MonthlyIs(s_parsed, s_job.parts.amount, 1)
       /\ s_parsed.unit = "yearly"
          => MonthlyIs(s_parsed, s_job.parts.amount, 12)

\* ------------------------------------------------- claims: double submission
\* C31: no double submission within a run: the apply stage navigates to any
\* given link at most once, also when several sources list the link with
\* differently written company, role or location text.
C31_NoDoubleSubmission ==
    \A a, b \in 1..Len(p_nav) : p_nav[a] = p_nav[b] => a = b

\* ------------------------------------------------------- claims: sessions
\* C33: every browser session made during the run, the scan session and the
\* apply session, is closed when the run has ended.
C33_SessionsClosed ==
    p_pc = "done"
    => /\ \E n \in 1..Len(p_sessions) : p_sessions[n].name = "scan"
       /\ \E n \in 1..Len(p_sessions) : p_sessions[n].name = "apply"
       /\ \A n \in 1..Len(p_sessions) : p_sessions[n].state = "closed"

====
